---------------------------- MODULE Spec2Model ----------------------------
(***************************************************************************)
(* Model of the precision average-speed limit engine                       *)
(* (src/precision_limit_engine.py, src/speed_limiting_engine.py,           *)
(* src/qb_manager.py, src/database.py).                                    *)
(*                                                                         *)
(* Units.  Time is in whole seconds (time.time() truncated).  Upload       *)
(* counters and sizes are in KiB, speed samples in KiB/s, so that the      *)
(* 50 MiB/s ceiling and the byte counters it is compared with stay inside  *)
(* TLC's 32-bit integers.  Upload caps are in bytes/s and download caps in *)
(* KiB/s, exactly as in the code.  Floating-point factors (PID gains,      *)
(* headroom, ratios) are fixed-point numbers in permille.                  *)
(***************************************************************************)
EXTENDS Integers, Sequences, FiniteSets, TLC

(***************************************************************************)
(* Bounds of the model                                                     *)
(***************************************************************************)
\* number of passes of the tick loop that are explored
MaxPasses == 3

(***************************************************************************)
(* Program constants (class LimitConfig)                                   *)
(***************************************************************************)
MIN_LIMIT == 4096
\* 50 * 1024 * 1024 bytes/s, here in KiB/s
SPEED_LIMIT == 51200
MAX_REANNOUNCE == 86400
ANNOUNCE_INTERVAL_NEW == 1800
ANNOUNCE_INTERVAL_WEEK == 2700
ANNOUNCE_INTERVAL_OLD == 3600
DL_LIMIT_MIN_TIME == 20
DL_LIMIT_BUFFER == 30
DL_LIMIT_MIN == 512
DL_LIMIT_ADJUST_BUFFER == 60
REANNOUNCE_WAIT_LIMIT == 5120
REANNOUNCE_MIN_INTERVAL == 900
REANNOUNCE_SPEED_SAMPLES == 300
API_RATE_LIMIT == 20
\* PROGRESS_PROTECT = 0.90, in permille
PROGRESS_PROTECT == 900
\* _cleanup_states: "not active for 2 hours"
EVICT_AFTER == 7200

PHASE_WARMUP == "warmup"
PHASE_CATCH == "catch"
PHASE_STEADY == "steady"
PHASE_FINISH == "finish"

(***************************************************************************)
(* Arithmetic helpers                                                      *)
(***************************************************************************)
Max(a, b) == IF a >= b THEN a ELSE b
Min(a, b) == IF a <= b THEN a ELSE b
Abs(a) == IF a >= 0 THEN a ELSE 0 - a

\* clamp(value, min_val, max_val)
clamp(value, min_val, max_val) == Max(min_val, Min(max_val, value))

\* Python's int(a / b): the quotient truncated toward zero (b > 0)
TruncDiv(a, b) == IF a >= 0 THEN a \div b ELSE 0 - ((0 - a) \div b)

\* floor(a * b / c) for a, b >= 0 and c > 0, computed without leaving 32 bits
MulDiv(a, b, c) == (a \div c) * b + ((a % c) * b) \div c


(***************************************************************************)
(* The environment: two torrents on two client instances.  What the client *)
(* reports for a torrent on a tick is drawn from these sets.               *)
(*   torrent 1: added more than 30 days before the engine was built        *)
(*              (announce interval estimate 3600), uploading at 60000      *)
(*              KiB/s, downloading at 1 KiB/s, always active on instance   *)
(*              1; the client answers a countdown of 1800 s to the next    *)
(*              announce, or nothing;                                      *)
(*   torrent 2: added 100 s before (estimate 1800), uploading at 8 KiB/s,  *)
(*              downloading at 100 KiB/s, active on either instance or on  *)
(*              none.                                                      *)
(* The uploaded counter of a torrent takes any of its values on any tick,  *)
(* so it may also fall (a torrent removed and added again).                *)
(* The measured upload speed of a torrent is the same on every tick: on    *)
(* such a series the Kalman filter and the multi-window average are exact  *)
(* (innovation 0, acceleration 0, every window average equal to the        *)
(* sample), so the model needs no floating point for them.                 *)
(***************************************************************************)
Hashes == {1, 2}
Instances == {1, 2}
\* time.time() when the engine is constructed
StartTime == 3000000
\* torrent['added_on']
AddedOn(h) == IF h = 1 THEN StartTime - 2600000 ELSE StartTime - 100
\* torrent['upspeed'] in KiB/s
UpSpeedOf(h) == IF h = 1 THEN 60000 ELSE 8
\* torrent['dlspeed'] in KiB/s
DlSpeedOf(h) == IF h = 1 THEN 1 ELSE 100
\* torrent['total_size'] and torrent['downloaded'] in KiB
TotalSizeOf(h) == IF h = 1 THEN 6080 ELSE 3000
DownloadedOf(h) == IF h = 1 THEN 3040 ELSE 1500
\* torrent['progress'] in permille
ProgressOf(h) == (DownloadedOf(h) * 1000) \div TotalSizeOf(h)
\* torrent['uploaded'] in KiB
UploadedVals(h) == IF h = 1 THEN {14399, 46540800} ELSE {0, 50000000}
\* props['reannounce'] in seconds; 0 stands for an empty answer
RaVals(h) == IF h = 1 THEN {0, 1800} ELSE {1800}
\* the instance that lists the torrent as active on a pass, 0 when none does
ListVals(h) == IF h = 1 THEN {1} ELSE {0, 1, 2}
\* seconds from the start of a pass to the start of the next
SleepVals == {900, 7300}

\* db.get_speed_rules(enabled_only=True): one default rule (site_id None)
RuleTargetKib == 8
\* rule['safety_margin'], in permille
RuleSafety == 1000
\* db.get_pt_sites(enabled_only=True): one site, both switches on
CacheAnyDl == TRUE
CacheAnyReannounceOpt == TRUE
\* _match_site_id(tracker): the tracker of torrent 2 matches the site (id 1),
\* the tracker of torrent 1 matches no site (0 stands for None) and the
\* torrent is handled under the default rule
SiteOf(h) == IF h = 2 THEN 1 ELSE 0
\* s.get('enable_reannounce_opt', 1) of the site sid
enable_reannounce_opt(sid) == sid = 1

(***************************************************************************)
(* estimate_announce_interval                                              *)
(***************************************************************************)
estimate_announce_interval(time_ref, now) ==
    IF time_ref = 0 THEN ANNOUNCE_INTERVAL_NEW
    ELSE LET age == Max(0, now - time_ref) IN
         IF age < 7 * 86400 THEN ANNOUNCE_INTERVAL_NEW
         ELSE IF age < 30 * 86400 THEN ANNOUNCE_INTERVAL_WEEK
         ELSE ANNOUNCE_INTERVAL_OLD

(***************************************************************************)
(* PIDController, in permille                                              *)
(***************************************************************************)
PidNew == [initialized |-> FALSE, integral |-> 0, last_error |-> 0,
           last_time |-> 0, last_output |-> 1000, derivative_filter |-> 0]

\* pid_params of the engine's EngineTuning: kp, ki, kd, headroom
PidParams(phase) ==
    IF phase = PHASE_WARMUP THEN [kp |-> 300, ki |-> 50, kd |-> 20, headroom |-> 1030]
    ELSE IF phase = PHASE_CATCH THEN [kp |-> 500, ki |-> 100, kd |-> 50, headroom |-> 1020]
    ELSE IF phase = PHASE_STEADY THEN [kp |-> 600, ki |-> 150, kd |-> 80, headroom |-> 1005]
    ELSE [kp |-> 800, ki |-> 200, kd |-> 120, headroom |-> 1001]

\* error = safe_div(target - actual, max(target, 1), 0), target and actual in
\* bytes given as KiB.  The error is at most 1; below -2000 it is held at
\* -2000 (the output is then clamped to 0.5 whatever the other terms are,
\* unless the error rose by more than 2000 within the tick).
PidError(targetK, actualK) ==
    LET t == Max(targetK, 1)
        d == targetK - actualK
    IN  IF d >= 0 THEN MulDiv(d, 1000, t)
        ELSE IF (0 - d) \div t >= 2000 THEN 0 - 2000000
        ELSE 0 - MulDiv(0 - d, 1000, t)

\* PIDController.update: <<new pid, output>>
PidUpdate(pid, gains, targetK, actualK, now) ==
    LET error == PidError(targetK, actualK)
        dt == now - pid.last_time
    IN  IF ~pid.initialized
        THEN <<[pid EXCEPT !.last_error = error, !.last_time = now,
                           !.initialized = TRUE], 1000>>
        ELSE IF dt <= 0 THEN <<pid, pid.last_output>>
        ELSE
        LET p_term == TruncDiv(gains.kp * error, 1000)
            \* clamp(integral + error * dt, -0.3, 0.3); dt >= 1
            integral == IF error > 600 THEN 300
                        ELSE IF error < 0 - 600 THEN 0 - 300
                        ELSE clamp(pid.integral + error * dt, 0 - 300, 300)
            i_term == TruncDiv(gains.ki * integral, 1000)
            raw_derivative == TruncDiv(error - pid.last_error, dt)
            dfilt == TruncDiv(3 * raw_derivative + 7 * pid.derivative_filter, 10)
            d_term == TruncDiv(gains.kd * dfilt, 1000)
            output == clamp(1000 + p_term + i_term + d_term, 500, 2000)
        IN  <<[pid EXCEPT !.last_time = now, !.integral = integral,
                          !.derivative_filter = dfilt, !.last_error = error,
                          !.last_output = output], output>>


(***************************************************************************)
(* ExtendedKalman and MultiWindowSpeedTracker on a constant series         *)
(***************************************************************************)
KalmanNew == [initialized |-> FALSE, speed |-> 0, accel |-> 0, last_time |-> 0]

\* ExtendedKalman.update.  With a zero innovation the state after the update
\* is the prediction whatever the gains are; no other case arises on the
\* series the environment produces (a CASE without OTHER: TLC would stop).
KalmanUpdate(k, measurement, now) ==
    IF ~k.initialized
    THEN [initialized |-> TRUE, speed |-> measurement, accel |-> 0, last_time |-> now]
    ELSE IF now - k.last_time <= 0 THEN k
    ELSE LET pred_speed == k.speed + k.accel * (now - k.last_time)
             innovation == measurement - pred_speed
         IN  CASE innovation = 0 -> [k EXCEPT !.speed = pred_speed, !.last_time = now]

\* ExtendedKalman.predict_upload, in KiB
predict_upload(k, time_left) ==
    Max(0, k.speed * time_left + (k.accel * time_left * time_left) \div 2)

\* PrecisionLimitController: kalman, pid, the newest sample of the multi-window
\* tracker (all its samples are equal; 0 - 1 when it is empty) and _smooth_limit
ControllerNew == [kalman |-> KalmanNew, pid |-> PidNew, mw_sample |-> 0 - 1,
                  smooth_limit |-> 0 - 1]

\* PrecisionLimitController.record_speed
record_speed(ctl, now, speed) ==
    [ctl EXCEPT !.kalman = KalmanUpdate(ctl.kalman, speed, now), !.mw_sample = speed]

\* MultiWindowSpeedTracker.get_weighted_avg: every non-empty window averages
\* to the common sample value, and so does their weighted mean
get_weighted_avg(ctl) == IF ctl.mw_sample >= 0 THEN ctl.mw_sample ELSE 0

\* MultiWindowSpeedTracker.get_recent_trend: (second - first) / first, in permille
get_recent_trend(ctl) == 0

\* PrecisionLimitController.reset
ControllerReset(ctl) == ControllerNew

(***************************************************************************)
(* AdaptiveQuantizer.quantize (limit and target in bytes/s, speed in KiB/s)*)
(***************************************************************************)
QuantSteps(phase) ==
    IF phase = PHASE_FINISH THEN 256
    ELSE IF phase = PHASE_STEADY THEN 512
    ELSE IF phase = PHASE_CATCH THEN 2048
    ELSE 4096

\* the step chosen for a call
QuantStep(phase, current_speed, target, trend) ==
    LET base == QuantSteps(phase)
        cs == current_speed * 1024
        \* ratio = safe_div(current_speed, target, 1)
        step0 == IF phase = PHASE_FINISH THEN 256
                 ELSE IF target = 0 THEN base \div 2
                 ELSE IF cs * 10 > 12 * target THEN base * 2
                 ELSE IF cs * 20 > 21 * target THEN base
                 ELSE IF cs * 5 > 4 * target THEN base \div 2
                 ELSE base
        step1 == IF Abs(trend) > 100 THEN Max(256, step0 \div 2) ELSE step0
    IN  clamp(step1, 256, 8192)

quantize(limit, phase, current_speed, target, trend) ==
    IF limit <= 0 THEN limit
    ELSE LET step == QuantStep(phase, current_speed, target, trend)
         IN  Max(MIN_LIMIT, ((limit + step \div 2) \div step) * step)

(***************************************************************************)
(* PrecisionLimitController._smooth: <<new _smooth_limit, returned limit>>   *)
(***************************************************************************)
smooth(smooth_limit, new_limit, phase) ==
    IF new_limit <= 0 \/ smooth_limit <= 0 \/ phase = PHASE_FINISH
    THEN <<new_limit, new_limit>>
    ELSE LET d == Abs(new_limit - smooth_limit) IN
         IF 5 * d < smooth_limit THEN <<new_limit, new_limit>>
         ELSE LET s == IF 2 * d >= smooth_limit
                       THEN (smooth_limit + new_limit) \div 2
                       ELSE (7 * smooth_limit + 3 * new_limit) \div 10
              IN  <<s, s>>


(***************************************************************************)
(* PrecisionLimitController.calculate                                      *)
(*   target: bytes/s, a whole number of KiB/s; uploaded: KiB;              *)
(*   precision_adj: permille.  Returns the controller after the call, the  *)
(*   limit (bytes/s) and the reason (the tag of the code's reason string). *)
(***************************************************************************)
\* int(required_speed * f1 * f2) with required_speed = need / time_left
ScaledRate(need, time_left, f1, f2) ==
    MulDiv(MulDiv(need, f1, 1000), f2, 1000) \div time_left

\* debug['predicted_ratio'] in permille, held at 2000 from 2.0 upwards
PredictedRatio(ctl, uploaded, time_left, target_totalK) ==
    LET num == uploaded + predict_upload(ctl.kalman, time_left) IN
    IF target_totalK = 0 THEN 0
    ELSE IF num \div target_totalK >= 2 THEN 2000
    ELSE MulDiv(num, 1000, target_totalK)

\* the FINISH correction factor, in permille
FinishCorrection(pred) ==
    IF pred > 1002 THEN Max(800, 1000 - (pred - 1000) * 3)
    ELSE IF pred < 998 THEN Min(1200, 1000 + (1000 - pred) * 3)
    ELSE 1000

calculate(ctl, target, uploaded, time_left, elapsed, phase, now, precision_adj) ==
    LET kalman_speed == ctl.kalman.speed
        weighted_speed == get_weighted_avg(ctl)
        trend == get_recent_trend(ctl)
        current_speed == IF phase = PHASE_FINISH /\ weighted_speed > 0
                         THEN weighted_speed
                         ELSE IF kalman_speed > 0 THEN kalman_speed
                         ELSE weighted_speed
        headroom == PidParams(phase).headroom
        \* the end of the call: the limit after _smooth, the controller updated
        finish(pid, reason, sm) ==
            [ctl |-> [ctl EXCEPT !.pid = pid, !.smooth_limit = sm[1]],
             limit |-> sm[2], reason |-> reason]
        \* quantize and smooth the limit of the phase
        shape(pid, adjusted_target, limit, reason) ==
            finish(pid, reason,
                   smooth(ctl.smooth_limit,
                          IF limit > 0
                          THEN quantize(limit, phase, current_speed, adjusted_target, trend)
                          ELSE limit,
                          phase))
        \* the limit of the phase
        by_phase(pid, pid_output, adjusted_target, target_totalK, need, pred) ==
            IF phase = PHASE_FINISH
            THEN shape(pid, adjusted_target,
                       ScaledRate(need, time_left, pid_output, FinishCorrection(pred)),
                       "F")
            ELSE IF phase = PHASE_STEADY
            THEN shape(pid, adjusted_target,
                       ScaledRate(need, time_left,
                                  IF pred > 1010 THEN 1000 ELSE headroom, pid_output),
                       "S")
            ELSE IF phase = PHASE_CATCH
            THEN IF need > adjusted_target * 5 * time_left
                 THEN shape(pid, adjusted_target, 0 - 1, "C-release")
                 ELSE shape(pid, adjusted_target,
                            ScaledRate(need, time_left, headroom, pid_output), "C")
            ELSE IF target_totalK > 0 /\ uploaded >= target_totalK
            THEN shape(pid, adjusted_target, MIN_LIMIT, "W-over")
            ELSE IF target_totalK > 0 /\ 5 * uploaded >= 4 * target_totalK
            THEN shape(pid, adjusted_target,
                       ScaledRate(need, time_left, 1010, pid_output), "W-fine")
            ELSE IF target_totalK > 0 /\ 2 * uploaded >= target_totalK
            THEN shape(pid, adjusted_target,
                       ScaledRate(need, time_left, 1050, 1000), "W-warm")
            ELSE shape(pid, adjusted_target, 0 - 1, "W-preheat")
        with_pid(pu, adjusted_target, target_totalK) ==
            by_phase(pu[1], pu[2], adjusted_target, target_totalK,
                     IF uploaded >= target_totalK THEN 0
                     ELSE (target_totalK - uploaded) * 1024,
                     PredictedRatio(ctl, uploaded, time_left, target_totalK))
        with_total(adjusted_target, target_totalK) ==
            with_pid(PidUpdate(ctl.pid, PidParams(phase), target_totalK, uploaded, now),
                     adjusted_target, target_totalK)
        with_target(adjusted_target) ==
            with_total(adjusted_target,
                       (adjusted_target * (elapsed + time_left)) \div 1024)
    IN  IF time_left <= 0
        THEN [ctl |-> ctl, limit |-> 0 - 1, reason |-> "announcing"]
        ELSE with_target((target * precision_adj) \div 1000)


(***************************************************************************)
(* SpeedTracker: the samples are records [t, up, dl], speeds in KiB/s      *)
(***************************************************************************)
\* the sums of the samples of q, taken by halves
RECURSIVE SumUp(_), SumDl(_)
SumUp(q) ==
    IF q = <<>> THEN 0
    ELSE IF Len(q) = 1 THEN q[1].up
    ELSE SumUp(SubSeq(q, 1, Len(q) \div 2)) + SumUp(SubSeq(q, Len(q) \div 2 + 1, Len(q)))
SumDl(q) ==
    IF q = <<>> THEN 0
    ELSE IF Len(q) = 1 THEN q[1].dl
    ELSE SumDl(SubSeq(q, 1, Len(q) \div 2)) + SumDl(SubSeq(q, Len(q) \div 2 + 1, Len(q)))

\* SpeedTracker.get_avg_speeds(window), read at time.time() = now
get_avg_speeds(samples, window, now) ==
    LET relevant == SelectSeq(samples, LAMBDA x : now - x.t <= window) IN
    IF relevant = <<>> THEN <<0, 0>>
    ELSE <<SumUp(relevant) \div Len(relevant), SumDl(relevant) \div Len(relevant)>>

(***************************************************************************)
(* TorrentLimitState.  0 stands for None in instance_id, last_announce_time*)
(* and publish_time.                                                       *)
(***************************************************************************)
NoState == [present |-> FALSE]

TorrentLimitState(h) ==
    [present |-> TRUE, hash |-> h, instance_id |-> 0,
     cycle_start |-> 0, cycle_uploaded_start |-> 0, cycle_index |-> 0,
     cycle_synced |-> FALSE, cycle_interval |-> 0, jump_count |-> 0, last_jump |-> 0,
     cached_time_left |-> 0, cache_ts |-> 0, prev_time_left |-> 0, last_props |-> 0,
     last_announce_time |-> 0, publish_time |-> 0,
     target_speed |-> 0, last_limit |-> 0 - 2, last_limit_reason |-> "",
     last_dl_limit |-> 0 - 1, dl_limited_this_cycle |-> FALSE,
     last_reannounce |-> 0, waiting_reannounce |-> FALSE,
     reannounced_this_cycle |-> FALSE,
     session_start_time |-> 0, total_uploaded_start |-> 0, total_size |-> 0,
     time_added |-> 0,
     limit_controller |-> ControllerNew, speed_tracker |-> <<>>]

get_announce_interval(st, now) ==
    estimate_announce_interval(
        IF st.publish_time # 0 THEN st.publish_time
        ELSE IF st.time_added > 0 THEN st.time_added ELSE 0, now)

get_tl(st, now) ==
    IF st.last_announce_time > 0
    THEN Max(0, st.last_announce_time + get_announce_interval(st, now) - now)
    ELSE IF st.cache_ts <= 0 THEN 9999
    ELSE Max(0, st.cached_time_left - (now - st.cache_ts))

\* a variant of the phase that takes a cycle for synchronised from the
\* start; C15 tells it apart
phase_by_time_left(st, tl) ==
    IF tl < 10 THEN "finish" ELSE IF tl < 60 THEN "catch" ELSE "steady"

get_phase(st, tl) ==
    IF ~st.cycle_synced THEN PHASE_WARMUP
    ELSE IF tl < 10 THEN PHASE_FINISH
    ELSE IF tl < 60 THEN PHASE_CATCH
    ELSE PHASE_STEADY

this_time(st, now) == Max(0, now - st.cycle_start)

this_up(st, total_uploaded) == Max(0, total_uploaded - st.cycle_uploaded_start)

\* the baseline of a cycle opened without a jump (the else branch of new_cycle)
EstimatedCycleStart(st, now, uploaded, tl) ==
    LET interval == get_announce_interval(st, now)
        elapsed_in_cycle == IF 0 < tl /\ tl < interval THEN interval - tl ELSE 0
        avg_speed == Max(0, st.limit_controller.kalman.speed)
    IN  IF st.time_added # 0 /\ now - st.time_added < interval THEN 0
        ELSE IF elapsed_in_cycle > 60
        THEN IF avg_speed > 0
             THEN Max(0, uploaded - avg_speed * elapsed_in_cycle)
             ELSE uploaded
        ELSE uploaded

\* a variant of the cycle counter that does not advance; C2 tells it apart
keep_cycle_index(cycle_index) == cycle_index

\* "self.cycle_index += 1"
\* a variant that numbers the cycles in steps of two; C40 tells it apart
skip_cycle_index(cycle_index) == cycle_index + 2

next_cycle_index(cycle_index) == cycle_index + 1

\* a variant of new_cycle that takes the cycle for synchronised at every
\* jump, however close the previous one; C29 tells it apart
new_cycle_any_gap(st, now, uploaded, tl, is_jump) ==
    [st EXCEPT
        !.jump_count = IF is_jump THEN st.jump_count + 1 ELSE st.jump_count,
        !.cycle_interval = IF is_jump THEN now - st.last_jump ELSE st.cycle_interval,
        !.cycle_synced = IF is_jump THEN TRUE ELSE st.cycle_synced,
        !.last_jump = IF is_jump THEN now ELSE st.last_jump,
        !.cycle_uploaded_start = uploaded,
        !.cycle_start = now,
        !.prev_time_left = tl]

\* a variant of new_cycle that takes the cycle for synchronised only while
\* the gap between the last two jumps repeats the one before; C38 tells it
\* apart
new_cycle_resynced(st, now, uploaded, tl, is_jump) ==
    LET synced_interval == is_jump /\ st.last_jump > 0 /\ now - st.last_jump > 60 IN
    [st EXCEPT
        !.jump_count = IF is_jump THEN st.jump_count + 1 ELSE st.jump_count,
        !.cycle_interval = IF synced_interval THEN now - st.last_jump
                           ELSE st.cycle_interval,
        !.cycle_synced = IF synced_interval /\ st.jump_count + 1 >= 2
                         THEN st.cycle_interval = 0
                                 \/ now - st.last_jump = st.cycle_interval
                         ELSE st.cycle_synced,
        !.last_jump = IF is_jump THEN now ELSE st.last_jump,
        !.last_announce_time = IF is_jump THEN now ELSE st.last_announce_time,
        !.cycle_uploaded_start = IF is_jump THEN uploaded
                                 ELSE EstimatedCycleStart(st, now, uploaded, tl),
        !.cycle_start = now,
        !.cycle_index = next_cycle_index(st.cycle_index),
        !.dl_limited_this_cycle = FALSE,
        !.reannounced_this_cycle = FALSE,
        !.last_dl_limit = 0 - 1,
        !.limit_controller = ControllerReset(st.limit_controller),
        !.speed_tracker = <<>>,
        !.prev_time_left = tl]

new_cycle(st, now, uploaded, tl, is_jump) ==
    LET synced_interval == is_jump /\ st.last_jump > 0 /\ now - st.last_jump > 60 IN
    [st EXCEPT
        !.jump_count = IF is_jump THEN st.jump_count + 1 ELSE st.jump_count,
        !.cycle_interval = IF synced_interval THEN now - st.last_jump
                           ELSE st.cycle_interval,
        !.cycle_synced = IF synced_interval /\ st.jump_count + 1 >= 2 THEN TRUE
                         ELSE st.cycle_synced,
        !.last_jump = IF is_jump THEN now ELSE st.last_jump,
        !.last_announce_time = IF is_jump THEN now ELSE st.last_announce_time,
        !.cycle_uploaded_start = IF is_jump THEN uploaded
                                 ELSE EstimatedCycleStart(st, now, uploaded, tl),
        !.cycle_start = now,
        !.cycle_index = next_cycle_index(st.cycle_index),
        !.dl_limited_this_cycle = FALSE,
        !.reannounced_this_cycle = FALSE,
        !.last_dl_limit = 0 - 1,
        !.limit_controller = ControllerReset(st.limit_controller),
        !.speed_tracker = <<>>,
        !.prev_time_left = tl]

\* a variant of the session-average test that never trips; C6 tells it apart
NeverAbove(st, total_uploaded, now, bound) == FALSE

\* get_real_avg_speed(total_uploaded, now) > bound, the bound in KiB/s
RealAvgSpeedAbove(st, total_uploaded, now, bound) ==
    IF st.session_start_time <= 0 THEN FALSE
    ELSE IF now - st.session_start_time <= 0
         THEN total_uploaded - st.total_uploaded_start > 0
         ELSE total_uploaded - st.total_uploaded_start
                 > bound * (now - st.session_start_time)


(***************************************************************************)
(* DownloadLimiter.calc_dl_limit: <<KiB/s, reason>>; sizes in KiB, dl_speed*)
(* in KiB/s                                                                *)
(***************************************************************************)
\* max(DL_LIMIT_MIN, int(remaining / (this_up / SPEED_LIMIT - this_time + buffer) / 1024))
DlLimitFor(remaining, up, time, buffer) ==
    Max(DL_LIMIT_MIN, MulDiv(remaining, SPEED_LIMIT, up - SPEED_LIMIT * (time - buffer)))

calc_dl_limit(st, total_done, total_uploaded, total_size, dl_speed, now) ==
    LET up == this_up(st, total_uploaded)
        time == this_time(st, now)
        remaining == total_size - total_done
        \* eta = remaining / max(dl_speed, 1), in bytes and bytes/s
        min_time == DL_LIMIT_MIN_TIME * (IF st.last_limit > 0 THEN 2 ELSE 1)
        eta_le_min_time == remaining * 1024 <= min_time * Max(dl_speed * 1024, 1)
    IN  IF time < 2 THEN <<0 - 1, "">>
        ELSE IF up <= SPEED_LIMIT * time
        THEN IF st.last_dl_limit > 0 THEN <<0 - 1, "recovered">> ELSE <<0 - 1, "">>
        ELSE IF remaining <= 0 THEN <<0 - 1, "">>
        ELSE IF st.last_dl_limit <= 0
        THEN IF eta_le_min_time
             THEN IF up <= SPEED_LIMIT * (time - DL_LIMIT_BUFFER)
                  THEN <<DL_LIMIT_MIN, "severe">>
                  ELSE <<DlLimitFor(remaining, up, time, DL_LIMIT_BUFFER), "over-limit">>
             ELSE <<0 - 1, "">>
        ELSE IF dl_speed < 2 * st.last_dl_limit
        THEN IF up <= SPEED_LIMIT * (time - DL_LIMIT_ADJUST_BUFFER)
             THEN <<DL_LIMIT_MIN, "sustained">>
             ELSE LET new_limit == DlLimitFor(remaining, up, time, DL_LIMIT_ADJUST_BUFFER)
                  IN  IF 100 * new_limit < 95 * st.last_dl_limit
                      THEN <<new_limit, "tighten">>
                      ELSE <<0 - 1, "">>
        ELSE <<0 - 1, "">>

(***************************************************************************)
(* ReannounceOptimizer.  Instants relative to now are in milliseconds.     *)
(***************************************************************************)
\* should_reannounce: [should, reason, waiting] (waiting: the flag afterwards)
should_reannounce(st, total_done, total_uploaded, total_size, now) ==
    LET up == this_up(st, total_uploaded)
        time == this_time(st, now)
        avg == get_avg_speeds(st.speed_tracker, REANNOUNCE_SPEED_SAMPLES, now)
        avg_up == avg[1]
        avg_dl == avg[2]
        remaining == total_size - total_done
        no == [should |-> FALSE, reason |-> "", waiting |-> st.waiting_reannounce]
    IN  IF st.last_reannounce > 0 /\ now - st.last_reannounce < REANNOUNCE_MIN_INTERVAL
        THEN no
        ELSE IF time < 30 THEN no
        ELSE IF avg_up <= SPEED_LIMIT \/ avg_dl <= 0 THEN no
        ELSE IF remaining <= 0 THEN no
        ELSE
        LET announce_interval == get_announce_interval(st, now)
            \* perfect_time - now = remaining / avg_dl - announce_interval * SPEED_LIMIT / avg_up
            perfect == MulDiv(remaining, 1000, avg_dl)
                         - MulDiv(announce_interval * SPEED_LIMIT, 1000, avg_up)
            over == up > SPEED_LIMIT * time
            \* earliest - now = (this_up - SPEED_LIMIT * this_time) / (45 * 1024 * 1024)
            earliest == IF over THEN MulDiv(up - SPEED_LIMIT * time, 1000, 45 * 1024)
                        ELSE 0
            now_ge_earliest == IF over THEN up - SPEED_LIMIT * time <= 0 ELSE TRUE
        IN  IF earliest + 1000 * time < 1000 * REANNOUNCE_MIN_INTERVAL THEN no
            ELSE IF earliest > perfect
            THEN IF now_ge_earliest
                 THEN IF over
                      THEN [should |-> TRUE, reason |-> "optimised",
                            waiting |-> st.waiting_reannounce]
                      ELSE no
                 ELSE IF earliest < perfect + 60000
                      THEN [should |-> FALSE, reason |-> "waiting", waiting |-> TRUE]
                      ELSE no
            ELSE no

\* a variant of check_waiting_reannounce that never finds the average
\* recovered; C26 tells it apart
never_recovered(st, total_uploaded, now) ==
    [should |-> FALSE, reason |-> "", waiting |-> st.waiting_reannounce]

\* check_waiting_reannounce with a whole announce interval as the waiting time
recovered_after_interval(st, total_uploaded, now) ==
    IF /\ st.waiting_reannounce
       /\ this_time(st, now) >= get_announce_interval(st, now)
       /\ this_up(st, total_uploaded) < SPEED_LIMIT * this_time(st, now)
    THEN [should |-> TRUE, reason |-> "recovered", waiting |-> FALSE]
    ELSE [should |-> FALSE, reason |-> "", waiting |-> st.waiting_reannounce]

\* check_waiting_reannounce: [should, reason, waiting]
check_waiting_reannounce(st, total_uploaded, now) ==
    LET up == this_up(st, total_uploaded)
        time == this_time(st, now)
        no == [should |-> FALSE, reason |-> "", waiting |-> st.waiting_reannounce]
    IN  IF ~st.waiting_reannounce THEN no
        ELSE IF time < REANNOUNCE_MIN_INTERVAL THEN no
        ELSE IF up < SPEED_LIMIT * time
        THEN [should |-> TRUE, reason |-> "recovered", waiting |-> FALSE]
        ELSE no


(***************************************************************************)
(* PrecisionTracker (the module-level precision_tracker).  Ratios are in   *)
(* permille, held at 100.0; the adjustments are in parts per million.      *)
(***************************************************************************)
PrecisionTrackerNew ==
    [history |-> <<>>, global_adj |-> 1000000,
     phase_adj |-> [ph \in {PHASE_WARMUP, PHASE_CATCH, PHASE_STEADY, PHASE_FINISH}
                      |-> 1000000]]

RECURSIVE SumRatio(_)
SumRatio(q) == IF q = <<>> THEN 0 ELSE Head(q).ratio + SumRatio(Tail(q))

\* the factor _update applies to a phase whose ratios average to sum / n
PhaseAdjFactor(sum, n) ==
    IF sum > 1005 * n THEN 998
    ELSE IF sum > 1001 * n THEN 999
    ELSE IF sum < 990 * n THEN 1002
    ELSE IF sum < 995 * n THEN 1001
    ELSE 1000

\* PrecisionTracker._update
PrecisionUpdate(pt) ==
    IF Len(pt.history) < 5 THEN pt
    ELSE
    LET of_phase(ph) == SelectSeq(pt.history, LAMBDA x : x.phase = ph)
        new_phase_adj ==
            [ph \in DOMAIN pt.phase_adj |->
                IF Len(of_phase(ph)) < 3 THEN pt.phase_adj[ph]
                ELSE clamp((pt.phase_adj[ph]
                              * PhaseAdjFactor(SumRatio(of_phase(ph)), Len(of_phase(ph))))
                             \div 1000, 920000, 1080000)]
        sum == SumRatio(pt.history)
        n == Len(pt.history)
        new_global ==
            IF sum > 1002 * n THEN clamp((pt.global_adj * 999) \div 1000, 950000, 1050000)
            ELSE IF sum < 995 * n
                 THEN clamp((pt.global_adj * 1001) \div 1000, 950000, 1050000)
                 ELSE pt.global_adj
    IN  [pt EXCEPT !.phase_adj = new_phase_adj, !.global_adj = new_global]

\* PrecisionTracker.record; the deque keeps the newest 30 entries
PrecisionRecord(pt, ratio, phase) ==
    LET appended == Append(pt.history, [ratio |-> ratio, phase |-> phase])
        kept == IF Len(appended) > 30 THEN Tail(appended) ELSE appended
    IN  PrecisionUpdate([pt EXCEPT !.history = kept])

\* PrecisionTracker.get_adjustment, in permille
get_adjustment(pt, phase) ==
    ((pt.phase_adj[phase] \div 1000) * (pt.global_adj \div 1000)) \div 1000

(***************************************************************************)
(* PrecisionLimitEngine._report_cycle: the statistics and the precision    *)
(* tracker after the report of the cycle that a jump closes.  The writes   *)
(* to the store fail on the keyword arguments and are caught.              *)
(***************************************************************************)
\* ratio = avg_speed / target in permille, held at 100.0
CycleRatio(uploaded_in_cycle, total_time, target) ==
    IF target <= 0 \/ total_time <= 0 THEN 0
    ELSE IF uploaded_in_cycle \div total_time >= 100 * (target \div 1024 + 1) THEN 100000
    ELSE Min(100000, MulDiv(MulDiv(uploaded_in_cycle, 1000, total_time), 1024, target))

report_cycle(eng, st, total_uploaded, now) ==
    LET tl == st.prev_time_left
        uploaded_in_cycle == this_up(st, total_uploaded)
        elapsed == Max(0, now - st.cycle_start)
        total_time == elapsed + Max(0, tl)
        ratio == CycleRatio(uploaded_in_cycle, total_time, st.target_speed)
        success == Abs(ratio - 1000) <= 30
        precise == Abs(ratio - 1000) <= 10
    IN  [stats |-> [total_cycles |-> eng.stats.total_cycles + 1,
                    success_cycles |-> eng.stats.success_cycles
                                         + (IF success THEN 1 ELSE 0),
                    precision_cycles |-> eng.stats.precision_cycles
                                           + (IF precise THEN 1 ELSE 0)],
         precision_tracker |-> PrecisionRecord(eng.precision_tracker, ratio,
                                               get_phase(st, tl))]


(***************************************************************************)
(* PrecisionLimitEngine: the steps of one torrent in a pass                *)
(***************************************************************************)
\* _process_all, "attach basic info" and "init session"
attach(st, inst_id, h, uploaded, now) ==
    LET s1 == [st EXCEPT !.instance_id = inst_id,
                         !.total_size = IF TotalSizeOf(h) # 0 THEN TotalSizeOf(h)
                                        ELSE st.total_size,
                         !.time_added = IF AddedOn(h) > 0 THEN AddedOn(h)
                                        ELSE st.time_added]
    IN  IF s1.session_start_time <= 0
        THEN [s1 EXCEPT !.session_start_time = now,
                        !.total_uploaded_start = uploaded,
                        !.cache_ts = now]
        ELSE s1

\* _process_torrent, "record speed sample"
record_speeds(st, up_speed, dl_speed, now) ==
    [st EXCEPT !.limit_controller = record_speed(st.limit_controller, now, up_speed),
               !.speed_tracker = Append(st.speed_tracker,
                                        [t |-> now, up |-> up_speed, dl |-> dl_speed])]

\* the same, with the speeds the client reports for torrent h
record_samples(st, h, now) == record_speeds(st, UpSpeedOf(h), DlSpeedOf(h), now)

\* _api_ok: [ok, api_times]
api_ok(api_times, now) ==
    LET kept == SelectSeq(api_times, LAMBDA t : ~(now - t > 1)) IN
    IF Len(kept) >= API_RATE_LIMIT THEN [ok |-> FALSE, api_times |-> kept]
    ELSE [ok |-> TRUE, api_times |-> Append(kept, now)]

\* LimitConfig.PROPS_CACHE in milliseconds
PropsCacheMs(phase) ==
    IF phase = PHASE_FINISH THEN 200
    ELSE IF phase = PHASE_STEADY THEN 500
    ELSE IF phase = PHASE_CATCH THEN 1000
    ELSE 2000

\* _get_props: [st, api_times]; ra is props['reannounce'], 0 when the client
\* answers nothing (get_torrent_properties returns None on any failure)
get_props(st, api_times, ra, now) ==
    LET phase == get_phase(st, get_tl(st, now))
        \* now - last_props < cache_time, both sides whole seconds
        cached == now - st.last_props < (PropsCacheMs(phase) + 999) \div 1000
        api == api_ok(api_times, now)
    IN  IF cached THEN [st |-> st, api_times |-> api_times]
        ELSE IF ~api.ok THEN [st |-> st, api_times |-> api.api_times]
        ELSE [st |-> IF 0 < ra /\ ra < MAX_REANNOUNCE
                     THEN [st EXCEPT !.last_props = now, !.cached_time_left = ra,
                                     !.cache_ts = now]
                     ELSE [st EXCEPT !.last_props = now],
              api_times |-> api.api_times]

\* the jump test of _process_torrent
is_jump(st, tl) == st.cycle_start > 0 /\ tl > st.prev_time_left + 30

\* a variant of _do_reannounce that notes the time of the call and leaves
\* the flags of the state as they are; C22 tells it apart
reannounce_unmarked(st, now) == [st EXCEPT !.last_reannounce = now]

\* _do_reannounce: qb_manager.reannounce never raises, the state is marked
\* whatever the client answered
do_reannounce(st, now) ==
    [st EXCEPT !.last_reannounce = now, !.reannounced_this_cycle = TRUE,
               !.waiting_reannounce = FALSE]

\* variants of the waiting cap: the configured number taken as bytes/s, and
\* no cap at all; C7 and C5 tell them apart
wait_limit_kib == REANNOUNCE_WAIT_LIMIT + 0
no_limit == 0 - 1

\* the cap while waiting for the reannounce, bytes/s
wait_limit == REANNOUNCE_WAIT_LIMIT * 1024

\* _calculate_upload_limit: [st, limit, reason]
calculate_upload_limit(st, total_uploaded, progress, tl, now, is_paused, pt) ==
    LET \* "progress protection: near complete do not leave unlimited"
        protected(c) ==
            IF progress > PROGRESS_PROTECT /\ c.limit < 0 /\ tl < 30
            THEN [st |-> [st EXCEPT !.limit_controller = c.ctl],
                  limit |-> Max(MIN_LIMIT, st.target_speed),
                  reason |-> c.reason \o "+protect"]
            ELSE [st |-> [st EXCEPT !.limit_controller = c.ctl],
                  limit |-> c.limit, reason |-> c.reason]
        in_phase(phase) ==
            protected(calculate(st.limit_controller, st.target_speed,
                                this_up(st, total_uploaded), tl,
                                Max(0, now - st.cycle_start), phase, now,
                                get_adjustment(pt, phase)))
    IN  IF is_paused THEN [st |-> st, limit |-> 0 - 1, reason |-> "paused"]
        ELSE IF RealAvgSpeedAbove(st, total_uploaded, now, (SPEED_LIMIT * 105) \div 100)
        THEN [st |-> st, limit |-> MIN_LIMIT, reason |-> "overspeed"]
        ELSE IF st.waiting_reannounce
        THEN [st |-> st, limit |-> wait_limit, reason |-> "waiting"]
        ELSE in_phase(get_phase(st, tl))

\* the effective target of _process_torrent, bytes/s: int(target_kib * 1024 * safety)
target_bytes == (RuleTargetKib * 1024 * RuleSafety) \div 1000

\* the download cap handed to the client: -1 if dl_kib < 0 else int(dl_kib * 1024)
dl_limit_apply(dl_kib) == IF dl_kib < 0 THEN 0 - 1 ELSE dl_kib * 1024

(***************************************************************************)
(* _process_torrent.  eng holds the statistics and the precision tracker.  *)
(* The result carries the state after the call, the returned upload limit, *)
(* the download limit to apply (dl_changed: not None) and what the call    *)
(* read on its way.                                                        *)
(***************************************************************************)
process_sampled(s1, eng, api_times, h, uploaded, ra, now, is_paused) ==
    LET \* "reannounce decision", and what the call returns
        decide(s7, acc, sr) ==
            [acc EXCEPT !.st =
                IF CacheAnyReannounceOpt /\ ~s7.reannounced_this_cycle
                THEN IF sr.should THEN do_reannounce(s7, now)
                     ELSE [s7 EXCEPT !.waiting_reannounce = sr.waiting]
                ELSE s7]
        reannounce(s7, acc) ==
            decide(s7, acc,
                   should_reannounce(s7, DownloadedOf(h), uploaded, TotalSizeOf(h), now))
        \* "download limit (bytes) -> apply only when changed"
        download(s6, acc, dl) ==
            reannounce(IF CacheAnyDl
                       THEN [s6 EXCEPT !.dl_limited_this_cycle = @ \/ dl[1] > 0,
                                       !.last_dl_limit = dl[1]]
                       ELSE s6,
                       [acc EXCEPT !.dl_changed = CacheAnyDl /\ dl[1] # s6.last_dl_limit,
                                   !.dl_kib = dl[1], !.dl_reason = dl[2],
                                   !.last_dl_limit = s6.last_dl_limit])
        limited(s6, acc) ==
            download(s6, acc,
                     calc_dl_limit(s6, DownloadedOf(h), uploaded, TotalSizeOf(h),
                                   DlSpeedOf(h), now))
        \* "calculate upload limit"
        upload(acc, up) ==
            limited([up.st EXCEPT !.last_limit_reason = up.reason],
                    [acc EXCEPT !.up_limit = up.limit, !.up_reason = up.reason])
        computed(s5, acc) ==
            upload([acc EXCEPT !.waiting = s5.waiting_reannounce],
                   calculate_upload_limit(s5, uploaded, ProgressOf(h), acc.tl, now,
                                          is_paused, acc.eng.precision_tracker))
        \* "reannounce waiting check"
        waited(s4, acc, cw) ==
            computed(IF CacheAnyReannounceOpt /\ cw.should THEN do_reannounce(s4, now)
                     ELSE s4, acc)
        targeted(s4, acc) ==
            waited(s4, acc, check_waiting_reannounce(s4, uploaded, now))
        \* "detect cycle jump", "update prev tl", "compute effective target"
        cycled(s2, acc, tl, jump) ==
            targeted([(IF s2.cycle_start = 0 \/ jump
                       THEN new_cycle(s2, now, uploaded, tl, jump) ELSE s2)
                        EXCEPT !.prev_time_left = tl, !.target_speed = target_bytes],
                     [acc EXCEPT !.tl = tl, !.is_jump = jump,
                                 !.opened = s2.cycle_start = 0 \/ jump,
                                 !.eng = IF jump THEN report_cycle(eng, s2, uploaded, now)
                                         ELSE eng])
        timed(s2, acc, tl) == cycled(s2, acc, tl, is_jump(s2, tl))
        \* "update qB props cache"
        propped(gp) ==
            timed(gp.st,
                  [st |-> gp.st, eng |-> eng, api_times |-> gp.api_times,
                   up_limit |-> 0, up_reason |-> "", dl_changed |-> FALSE,
                   dl_kib |-> 0, dl_reason |-> "", tl |-> 0, is_jump |-> FALSE,
                   opened |-> FALSE, waiting |-> FALSE, last_dl_limit |-> 0],
                  get_tl(gp.st, now))
    IN  propped(get_props(s1, api_times, ra, now))

\* _process_torrent as a whole, the speed samples first
process_torrent(st0, eng, api_times, h, uploaded, ra, now, is_paused) ==
    process_sampled(record_samples(st0, h, now), eng, api_times, h, uploaded, ra,
                    now, is_paused)

(***************************************************************************)
(* The batches of _process_all: up_actions[inst_id][limit] and             *)
(* dl_actions[inst_id][limit] as the sequence of their groups in the order *)
(* the nested dictionaries are iterated (instances in insertion order, and *)
(* the limits of an instance in insertion order).                          *)
(***************************************************************************)
\* variants of the batching tests: every cap counts as changed (C9 tells it
\* apart), and no hash ever joins an existing group (C8 tells it apart)
always_changed(new_limit, st) == TRUE
never_same_group(g, inst_id, limit) == FALSE

\* "new_limit != state.last_limit"
up_changed(new_limit, st) == new_limit # st.last_limit

\* the group a hash joins: up_actions.setdefault(inst_id, {}).setdefault(limit, [])
same_group(g, inst_id, limit) == g.inst = inst_id /\ g.limit = limit

add_action(actions, inst_id, limit, h) ==
    LET idx == {i \in DOMAIN actions : same_group(actions[i], inst_id, limit)}
        of_inst == {i \in DOMAIN actions : actions[i].inst = inst_id}
        group == [inst |-> inst_id, limit |-> limit, hashes |-> <<h>>]
    IN  IF idx # {}
        THEN [i \in DOMAIN actions |->
                 IF i \in idx
                 THEN [actions[i] EXCEPT !.hashes = Append(@, h)]
                 ELSE actions[i]]
        ELSE IF of_inst = {} THEN Append(actions, group)
        ELSE LET last == CHOOSE i \in of_inst : \A j \in of_inst : j <= i
             IN  SubSeq(actions, 1, last) \o <<group>>
                   \o SubSeq(actions, last + 1, Len(actions))

\* _cleanup_states
\* _cleanup_states that removes nothing
cleanup_nothing(sts, active, now) == sts

cleanup_states(sts, active, now) ==
    [h \in Hashes |->
        IF sts[h].present /\ h \notin active
           /\ sts[h].session_start_time > 0
           /\ now - sts[h].session_start_time > EVICT_AFTER
        THEN NoState ELSE sts[h]]


(***************************************************************************)
(* The engine                                                              *)
(***************************************************************************)
VARIABLES
    now,            \* time.time()
    paused,         \* PrecisionLimitEngine.paused
    states,         \* _states: hash -> TorrentLimitState, NoState when absent
    eng,            \* _stats and the module's precision_tracker
    api_times,      \* _api_times
    pc,             \* the loop thread: "sleep" or "pass" (inside _process_all)
    passes,         \* passes of _run_loop begun so far
    todo,           \* the torrents of this pass still to process, <<inst_id, hash>>
    active_hashes,  \* active_hashes of this pass
    up_actions,     \* up_actions of this pass, groups not yet sent
    dl_actions,     \* dl_actions of this pass, groups not yet sent
    emit,           \* history: what _process_torrent read and returned in this pass
    rpc_log,        \* history: the limit calls of this pass
    running,        \* PrecisionLimitEngine._running
    thread,         \* the threads start() made: [loop, workers]
    stopper,        \* the caller of stop(): "idle", "joining" or "returned"
    store,          \* the table torrent_limit_states of the database
    client,         \* the limits in force at the clients, by <<inst_id, hash>>
    hist,           \* history: what start() and stop() did
    calc            \* one call of a function of the controller, with its result

\* the fields and locals of the engine's tick loop
tickvars == <<now, paused, states, eng, api_times, pc, passes, todo, active_hashes,
              up_actions, dl_actions, emit, rpc_log>>

\* the engine's life cycle and its surroundings
lifevars == <<running, thread, stopper, store, client, hist>>

vars == <<now, paused, states, eng, api_times, pc, passes, todo, active_hashes,
          up_actions, dl_actions, emit, rpc_log,
          running, thread, stopper, store, client, hist, calc>>

NoEmit == [seen |-> FALSE]

\* no row of the table for a hash; no cap on a torrent at a client (the
\* client's limit 0, what qb_manager sends for -1)
NoRecord == [present |-> FALSE]
NoCap == [up |-> 0, dl |-> 0]

\* history of start() and stop(): whether the last start() raised, whether a
\* call of the loop came after stop() had returned, and, taken when stop()
\* returns, the caps then in force at the clients, the uncapping calls stop()
\* issued (pairs <<inst_id, hash>>) and the states it had to save
NoHist == [start_failed |-> FALSE, restarted |-> FALSE, late |-> FALSE,
           capped |-> [up |-> {}, dl |-> {}], uncapped |-> [up |-> {}, dl |-> {}],
           before |-> [h \in Hashes |-> NoState]]
NoCalc == [kind |-> "none"]

\* __init__: the fields of a new engine
EngineInit ==
    /\ now = StartTime
    /\ paused = FALSE
    /\ states = [h \in Hashes |-> NoState]
    /\ eng = [stats |-> [total_cycles |-> 0, success_cycles |-> 0,
                         precision_cycles |-> 0],
              precision_tracker |-> PrecisionTrackerNew]
    /\ api_times = <<>>
    /\ pc = "sleep"
    /\ passes = 0
    /\ todo = <<>>
    /\ active_hashes = {}
    /\ up_actions = <<>>
    /\ dl_actions = <<>>
    /\ emit = [h \in Hashes |-> NoEmit]
    /\ rpc_log = <<>>

\* the surroundings of a new engine: an empty table, no cap at the clients
WorldInit ==
    /\ stopper = "idle"
    /\ store = [h \in Hashes |-> NoRecord]
    /\ client = [p \in Instances \X Hashes |-> NoCap]
    /\ hist = NoHist
    /\ calc = NoCalc

\* the engine constructed and started: start() has set _running and the loop
\* thread is alive (no site helper, so no worker threads)
Init ==
    /\ EngineInit
    /\ WorldInit
    /\ running = TRUE
    /\ thread = [loop |-> "alive", workers |-> 0]

\* qb_manager.get_torrents(inst_id, filter='active') over the instances, in
\* the order of the loops of _process_all: instance 1 first
Listing(listing) ==
    LET on(i) == IF listing[1] = i /\ listing[2] = i THEN <<(<<i, 1>>), (<<i, 2>>)>>
                 ELSE IF listing[1] = i THEN <<(<<i, 1>>)>>
                 ELSE IF listing[2] = i THEN <<(<<i, 2>>)>>
                 ELSE <<>>
    IN  on(1) \o on(2)

\* _run_loop wakes up and enters _process_all
BeginPass ==
    /\ pc = "sleep"
    /\ passes < MaxPasses
    /\ \E listing \in [Hashes -> Instances \cup {0}] :
          /\ \A h \in Hashes : listing[h] \in ListVals(h)
          /\ todo' = Listing(listing)
    /\ pc' = "pass"
    /\ passes' = passes + 1
    /\ UNCHANGED <<now, paused, states, eng, api_times, active_hashes, up_actions,
                   dl_actions, emit, rpc_log>>

\* the body of the torrent loop of _process_all for the next listed torrent
ProcessTorrent ==
    /\ pc = "pass"
    /\ todo # <<>>
    /\ \E inst_id \in {Head(todo)[1]}, h \in {Head(todo)[2]} :
       \E uploaded \in UploadedVals(h), ra \in RaVals(h) :
       \E st0 \in {attach(IF states[h].present THEN states[h] ELSE TorrentLimitState(h),
                          inst_id, h, uploaded, now)} :
       \E r \in {process_torrent(st0, eng, api_times, h, uploaded, ra, now, paused)} :
       \E changed \in {up_changed(r.up_limit, r.st)} :
          /\ states' = [states EXCEPT ![h] =
                           IF changed THEN [r.st EXCEPT !.last_limit = r.up_limit]
                           ELSE r.st]
          /\ eng' = r.eng
          /\ api_times' = r.api_times
          /\ active_hashes' = active_hashes \cup {h}
          /\ up_actions' = IF changed
                           THEN add_action(up_actions, inst_id, r.up_limit, h)
                           ELSE up_actions
          /\ dl_actions' = IF r.dl_changed
                           THEN add_action(dl_actions, inst_id,
                                           dl_limit_apply(r.dl_kib), h)
                           ELSE dl_actions
          /\ emit' = [emit EXCEPT ![h] =
                        [seen |-> TRUE, inst |-> inst_id, uploaded |-> uploaded,
                         paused |-> paused,
                         after_pause |-> st0.last_limit_reason = "paused" /\ ~paused,
                         waiting |-> r.waiting,
                         limit |-> r.up_limit, reason |-> r.up_reason,
                         last_limit |-> r.st.last_limit,
                         dl_kib |-> r.dl_kib, dl_changed |-> r.dl_changed,
                         last_dl_limit |-> r.last_dl_limit,
                         opened |-> r.opened,
                         cycle_index |-> st0.cycle_index]]
    /\ todo' = Tail(todo)
    /\ UNCHANGED <<now, paused, pc, passes, rpc_log>>

\* what the client is sent: "actual_limit = 0 if limit == -1 else limit"
actual_limit(limit) == IF limit = 0 - 1 THEN 0 ELSE limit

\* a variant of the apply loops that gives the pass up at the first call
\* that fails; C11 tells it apart
abort_on_failure(actions, ok) == IF ok THEN Tail(actions) ELSE <<>>

\* the groups left after a call: the loops over up_actions and dl_actions go
\* on to the next group whatever the call returned
after_call(actions, ok) == Tail(actions)

\* "apply batched limits", one qb_manager.set_upload_limit call; the call
\* returns (False, msg) when the client cannot be reached or refuses, and
\* _process_all drops what it returns
ApplyUploadLimit ==
    /\ pc = "pass"
    /\ todo = <<>>
    /\ up_actions # <<>>
    /\ \E ok \in BOOLEAN :
          /\ rpc_log' = Append(rpc_log, [kind |-> "up", inst |-> Head(up_actions).inst,
                                         limit |-> Head(up_actions).limit,
                                         sent |-> actual_limit(Head(up_actions).limit),
                                         hashes |-> Head(up_actions).hashes,
                                         ok |-> ok])
          /\ up_actions' = after_call(up_actions, ok)
    /\ UNCHANGED <<now, paused, states, eng, api_times, pc, passes, todo,
                   active_hashes, dl_actions, emit>>

\* one qb_manager.set_download_limit call, after the upload limits
ApplyDownloadLimit ==
    /\ pc = "pass"
    /\ todo = <<>>
    /\ up_actions = <<>>
    /\ dl_actions # <<>>
    /\ \E ok \in BOOLEAN :
          /\ rpc_log' = Append(rpc_log, [kind |-> "dl", inst |-> Head(dl_actions).inst,
                                         limit |-> Head(dl_actions).limit,
                                         sent |-> actual_limit(Head(dl_actions).limit),
                                         hashes |-> Head(dl_actions).hashes,
                                         ok |-> ok])
          /\ dl_actions' = after_call(dl_actions, ok)
    /\ UNCHANGED <<now, paused, states, eng, api_times, pc, passes, todo,
                   active_hashes, up_actions, emit>>

\* the end of _process_all (_cleanup_states) and the rest of the loop body:
\* the periodic save fails on its keyword arguments and stores nothing, then
\* the thread sleeps.  The locals and the history of the pass are dropped.
EndPass ==
    /\ pc = "pass"
    /\ todo = <<>>
    /\ up_actions = <<>>
    /\ dl_actions = <<>>
    /\ states' = cleanup_states(states, active_hashes, now)
    /\ \E dt \in SleepVals : now' = now + dt
    /\ pc' = "sleep"
    /\ active_hashes' = {}
    /\ emit' = [h \in Hashes |-> NoEmit]
    /\ rpc_log' = <<>>
    /\ UNCHANGED <<paused, eng, api_times, passes, todo, up_actions, dl_actions>>

\* notifier._cmd_pause, on the bot's thread.  The flag is read once per
\* torrent of a pass; the command is taken while the loop sleeps.
Pause ==
    /\ pc = "sleep"
    /\ paused' = TRUE
    /\ UNCHANGED <<now, states, eng, api_times, pc, passes, todo, active_hashes,
                   up_actions, dl_actions, emit, rpc_log>>

\* notifier._cmd_resume, on the bot's thread
Resume ==
    /\ pc = "sleep"
    /\ paused' = FALSE
    /\ UNCHANGED <<now, states, eng, api_times, pc, passes, todo, active_hashes,
                   up_actions, dl_actions, emit, rpc_log>>

\* the tick loop of a started engine, with the bot's pause and resume
Next ==
    \/ BeginPass /\ UNCHANGED <<lifevars, calc>>
    \/ ProcessTorrent /\ UNCHANGED <<lifevars, calc>>
    \/ ApplyUploadLimit /\ UNCHANGED <<lifevars, calc>>
    \/ ApplyDownloadLimit /\ UNCHANGED <<lifevars, calc>>
    \/ EndPass /\ UNCHANGED <<lifevars, calc>>
    \/ Pause /\ UNCHANGED <<lifevars, calc>>
    \/ Resume /\ UNCHANGED <<lifevars, calc>>

Spec == Init /\ [][Next]_vars

\* the state in which every call of the pass has been made
PassDone == pc = "pass" /\ todo = <<>> /\ up_actions = <<>> /\ dl_actions = <<>>

(***************************************************************************)
(* Properties                                                              *)
(***************************************************************************)
\* the torrents processed so far in the running pass
Seen == {h \in Hashes : emit[h].seen}

\* the calls of one kind made in the running pass that carry hash h
CallsFor(kind, h) ==
    {i \in DOMAIN rpc_log :
        /\ rpc_log[i].kind = kind
        /\ \E k \in DOMAIN rpc_log[i].hashes : rpc_log[i].hashes[k] = h}

\* the session-wide real average upload speed of h on this tick is above
\* SPEED_LIMIT * 1.05
Overspeed(h) ==
    emit[h].uploaded - states[h].total_uploaded_start
        > ((SPEED_LIMIT * 105) \div 100) * (now - states[h].session_start_time)

\* C1: on every tick, the cycle baseline (cycle_uploaded_start) of a torrent
\* is at most the uploaded counter the client reported for it on that tick.
C1_BaselineAtMostObserved ==
    \A h \in Seen : states[h].cycle_uploaded_start <= emit[h].uploaded

C3_LastLimitDomain ==
    \A h \in Hashes :
        states[h].present =>
            \/ states[h].last_limit = 0 - 1
            \/ states[h].last_limit = 0 - 2
            \/ states[h].last_limit >= MIN_LIMIT

\* C4: what the engine emits for a torrent while paused is uncapped: the
\* upload limit is -1, and a download limit handed to the client is -1.
C4_PausedEmitsUncapped ==
    \A h \in Seen :
        emit[h].paused =>
            /\ emit[h].limit = 0 - 1
            /\ emit[h].dl_changed => emit[h].dl_kib = 0 - 1

\* C5 as stated: on the first tick of a torrent after the pause was lifted,
\* its upload cap is a value other than -1.
C5_FiniteAfterResume ==
    \A h \in Seen : emit[h].after_pause => emit[h].limit # 0 - 1

\* C5 amended: when the engine is not paused, the upload cap it emits is -1
\* only where the control law releases the torrent: the announce is due
\* (time_left <= 0), the warm-up is below half of the cycle's target, or the
\* catch phase is hopelessly behind.
C5_UncappedOnlyByLaw ==
    \A h \in Seen :
        ~emit[h].paused /\ emit[h].limit = 0 - 1
            => emit[h].reason \in {"announcing", "W-preheat", "C-release"}

\* the first tick after a resume leaves a torrent uncapped, in the warm-up
C5_Witness ==
    \E h \in Seen : /\ emit[h].after_pause
                    /\ emit[h].limit = 0 - 1
                    /\ emit[h].reason = "W-preheat"

\* C6: not paused and the session-wide real average above SPEED_LIMIT * 1.05:
\* the upload cap emitted on that tick is MIN_LIMIT with the overspeed reason.
C6_OverspeedBrake ==
    \A h \in Seen :
        ~emit[h].paused /\ Overspeed(h)
            => emit[h].limit = MIN_LIMIT /\ emit[h].reason = "overspeed"

C6_Witness ==
    \E h \in Seen : /\ ~emit[h].paused
                    /\ Overspeed(h)
                    /\ emit[h].limit = 4096
                    /\ states[h].last_limit_reason = "overspeed"

\* C7: waiting_reannounce set, not paused, no overspeed brake: the upload cap
\* emitted is 5120 * 1024 bytes/s with the waiting reason.
C7_WaitingCap ==
    \A h \in Seen :
        emit[h].waiting /\ ~emit[h].paused /\ ~Overspeed(h)
            => emit[h].limit = 5120 * 1024 /\ emit[h].reason = "waiting"

C7_Witness ==
    \E h \in Seen : /\ emit[h].waiting
                    /\ ~emit[h].paused
                    /\ ~Overspeed(h)
                    /\ states[h].last_limit = 5120 * 1024

\* C8: when all calls of a pass have been made, there is one upload-limit
\* call per (instance, cap) group: no two calls of a kind share instance and
\* cap, and every torrent whose computed cap differs from its recorded one
\* is carried by the call of its instance and cap.
C8_OneCallPerGroup ==
    PassDone =>
        /\ \A i, j \in DOMAIN rpc_log :
              /\ rpc_log[i].kind = rpc_log[j].kind
              /\ rpc_log[i].inst = rpc_log[j].inst
              /\ rpc_log[i].limit = rpc_log[j].limit
              => i = j
        /\ \A h \in Seen :
              emit[h].limit # emit[h].last_limit =>
                 \E i \in CallsFor("up", h) :
                    /\ rpc_log[i].inst = emit[h].inst
                    /\ rpc_log[i].limit = emit[h].limit

\* two torrents of one instance with the same new cap went out in one call
C8_Witness ==
    /\ PassDone
    /\ \E i \in DOMAIN rpc_log :
          /\ rpc_log[i].kind = "up"
          /\ Len(rpc_log[i].hashes) = 2
          /\ emit[1].inst = emit[2].inst
          /\ emit[1].limit = emit[2].limit

\* C9: a hash is in an upload (download) call of a pass only if the cap
\* computed in the pass differs from the recorded one; with equal caps there
\* is no call for it and the record keeps its value.
C9_CallOnlyOnChange ==
    PassDone =>
        /\ \A h \in Hashes \ Seen : CallsFor("up", h) = {} /\ CallsFor("dl", h) = {}
        /\ \A h \in Seen :
              /\ CallsFor("up", h) # {} => emit[h].limit # emit[h].last_limit
              /\ emit[h].limit = emit[h].last_limit
                    => /\ CallsFor("up", h) = {}
                       /\ states[h].last_limit = emit[h].last_limit
              /\ CallsFor("dl", h) # {} => emit[h].dl_kib # emit[h].last_dl_limit
              /\ emit[h].dl_kib = emit[h].last_dl_limit
                    => /\ CallsFor("dl", h) = {}
                       /\ states[h].last_dl_limit = emit[h].last_dl_limit

\* a pass with a call for one torrent and none for the other, whose cap stayed
C9_Witness ==
    /\ PassDone
    /\ \E h, g \in Seen :
          /\ emit[h].limit = emit[h].last_limit
          /\ CallsFor("up", h) = {}
          /\ CallsFor("up", g) # {}

\* C10: a cap whose call failed is not recorded as the last applied cap of
\* the torrents it was meant for (so that a following pass issues it again).
C10_FailedApplyNotRecorded ==
    PassDone =>
        \A i \in DOMAIN rpc_log :
            ~rpc_log[i].ok =>
                \A k \in DOMAIN rpc_log[i].hashes :
                    IF rpc_log[i].kind = "up"
                    THEN states[rpc_log[i].hashes[k]].last_limit # rpc_log[i].limit
                    ELSE dl_limit_apply(states[rpc_log[i].hashes[k]].last_dl_limit)
                            # rpc_log[i].limit


C16_EvictOnlyStale ==
    PassDone =>
        \A h \in Hashes :
            /\ states[h].present
            /\ ~cleanup_states(states, active_hashes, now)[h].present
            => now - states[h].last_props >= EVICT_AFTER

(***************************************************************************)
(* The functions of the controller on their own                            *)
(*                                                                         *)
(* SpecCalc applies get_phase and PrecisionLimitController.calculate to    *)
(* arguments drawn from the sets below; calc holds the arguments and the   *)
(* result of the call.  Further calls of calculate follow a first one on   *)
(* the same controller, each dt seconds after the one before and in the    *)
(* same phase, up to MaxCalls calls.                                       *)
(***************************************************************************)
\* number of successive calls of calculate on one controller
MaxCalls == 3

\* time_left, in seconds, on both sides of the boundaries of the phases
TlVals == {0, 1, 9, 10, 11, 59, 60, 61, 1800}
\* fields of a state that get_phase has no use for
JumpCountVals == {0, 2}
CycleIntervalVals == {0, 1800}
CachedTlVals == {0, 1800}

Phases == {PHASE_WARMUP, PHASE_CATCH, PHASE_STEADY, PHASE_FINISH}
\* the measured upload speed of the controller's samples, KiB/s
CalcSpeedVals == {0, 8, 12}
\* _smooth_limit before the first call
CalcSmoothVals == {0 - 1, 4096, 20480}
\* <<elapsed, time_left>> of the first call, by phase: a cycle of 1800 s
CalcTimes(phase) ==
    IF phase = PHASE_FINISH THEN {<<1791, 9>>, <<1795, 5>>, <<1798, 2>>}
    ELSE IF phase = PHASE_CATCH THEN {<<1770, 30>>}
    ELSE {<<0, 1800>>, <<900, 900>>}
\* uploaded in the cycle at the first call, KiB (the cycle's target is 14400)
CalcUploadedVals == {0, 8000, 12000, 14000, 14399, 14400}
\* seconds between two successive calls
CalcDtVals == {1, 3}

\* a controller that has recorded one sample of the given speed
CalcController(speed, smooth_limit, t) ==
    [record_speed(ControllerNew, t, speed) EXCEPT !.smooth_limit = smooth_limit]

\* current_speed of calculate
calc_current_speed(ctl, phase) ==
    IF phase = PHASE_FINISH /\ get_weighted_avg(ctl) > 0 THEN get_weighted_avg(ctl)
    ELSE IF ctl.kalman.speed > 0 THEN ctl.kalman.speed
    ELSE get_weighted_avg(ctl)

InitCalc ==
    /\ EngineInit
    /\ WorldInit
    /\ running = FALSE
    /\ thread = [loop |-> "none", workers |-> 0]

\* state.get_phase(now, tl)
CalcPhase ==
    /\ calc.kind = "none"
    /\ \E synced \in BOOLEAN, tl \in TlVals, jc \in JumpCountVals,
          ci \in CycleIntervalVals, ctl \in CachedTlVals :
       \E st \in {[TorrentLimitState(1) EXCEPT !.cycle_synced = synced,
                                               !.jump_count = jc,
                                               !.cycle_interval = ci,
                                               !.cached_time_left = ctl]} :
          calc' = [kind |-> "phase", st |-> st, tl |-> tl, out |-> get_phase(st, tl)]
    /\ UNCHANGED <<tickvars, lifevars>>

\* limit_controller.calculate(...), the first call on a controller
CalcFirst ==
    /\ calc.kind = "none"
    /\ \E phase \in Phases, speed \in CalcSpeedVals, sm \in CalcSmoothVals,
          uploaded \in CalcUploadedVals :
       \E tm \in CalcTimes(phase) :
       \E ctl \in {CalcController(speed, sm, now)} :
          calc' = [kind |-> "limit", phase |-> phase, ctl |-> ctl,
                   target |-> target_bytes, uploaded |-> uploaded,
                   elapsed |-> tm[1], time_left |-> tm[2], t |-> now,
                   n |-> 1, prev |-> 0 - 2,
                   out |-> calculate(ctl, target_bytes, uploaded, tm[2], tm[1],
                                     phase, now, 1000)]
    /\ UNCHANGED <<tickvars, lifevars>>

\* the call of the next tick, dt seconds later: the torrent has uploaded
\* nothing or at its measured speed, and is in the same phase
CalcNext ==
    /\ calc.kind = "limit"
    /\ calc.n < MaxCalls
    /\ \E dt \in CalcDtVals, moved \in BOOLEAN :
          /\ calc.time_left - dt > 0
          /\ calc' = [calc EXCEPT
                 !.ctl = calc.out.ctl,
                 !.uploaded = IF moved THEN @ + calc.ctl.mw_sample * dt ELSE @,
                 !.elapsed = @ + dt,
                 !.time_left = @ - dt,
                 !.t = @ + dt,
                 !.n = @ + 1,
                 !.prev = calc.out.limit,
                 !.out = calculate(calc.out.ctl, calc.target,
                                   IF moved THEN calc.uploaded + calc.ctl.mw_sample * dt
                                   ELSE calc.uploaded,
                                   calc.time_left - dt, calc.elapsed + dt,
                                   calc.phase, calc.t + dt, 1000)]
    /\ UNCHANGED <<tickvars, lifevars>>

\* what a state has recorded of its earlier jumps, as new_cycle leaves it:
\* <<jump_count, seconds since last_jump (0: none), cycle_interval, cycle_synced>>
CycleHistories ==
    {<<0, 0, 0, FALSE>>}
        \cup {<<1, g, 0, FALSE>> : g \in {30, 60, 61, 1800}}
        \cup {<<2, g, 0, FALSE>> : g \in {30, 60, 61, 1800}}
        \cup {<<2, g, 1800, TRUE>> : g \in {30, 60, 61, 1800}}

\* state.new_cycle(now, total_uploaded, tl, is_jump) on a state in its
\* second or later cycle
CalcCycle ==
    /\ calc.kind = "none"
    /\ \E hs \in CycleHistories, uploaded \in CalcUploadedVals, start \in {0, 8000},
          tl \in CachedTlVals, jump \in BOOLEAN :
       \E st \in {[TorrentLimitState(1) EXCEPT
                        !.cycle_start = now - 1800, !.cycle_index = hs[1] + 1,
                        !.cycle_uploaded_start = start,
                        !.jump_count = hs[1],
                        !.last_jump = IF hs[2] = 0 THEN 0 ELSE now - hs[2],
                        !.cycle_interval = hs[3], !.cycle_synced = hs[4],
                        !.time_added = AddedOn(1)]} :
          calc' = [kind |-> "cycle", st |-> st, t |-> now, uploaded |-> uploaded,
                   tl |-> tl, is_jump |-> jump,
                   out |-> new_cycle(st, now, uploaded, tl, jump)]
    /\ UNCHANGED <<tickvars, lifevars>>

\* seconds into the cycle, on both sides of REANNOUNCE_MIN_INTERVAL and at
\* the three announce intervals
WaitingElapsedVals == {0, 899, 900, 1799, 1800, 2700, 3600}
\* age of the torrent, seconds: under a week, under 30 days, older
WaitingAgeVals == {100, 10 * 86400, 2600000}
\* uploaded in the cycle, KiB, relative to SPEED_LIMIT * elapsed
WaitingUpOffsets == {0 - 1, 0, 1}

\* ReannounceOptimizer.check_waiting_reannounce(state, total_uploaded, now)
CalcWaiting ==
    /\ calc.kind = "none"
    /\ \E waiting \in BOOLEAN, e \in WaitingElapsedVals, age \in WaitingAgeVals,
          off \in WaitingUpOffsets :
       \E st \in {[TorrentLimitState(1) EXCEPT
                        !.cycle_start = now - e, !.cycle_index = 1,
                        !.cycle_uploaded_start = 8000,
                        !.waiting_reannounce = waiting,
                        !.time_added = now - age]} :
       \E uploaded \in {8000 + Max(0, SPEED_LIMIT * e + off)} :
          calc' = [kind |-> "waiting", st |-> st, t |-> now, uploaded |-> uploaded,
                   out |-> check_waiting_reannounce(st, uploaded, now)]
    /\ UNCHANGED <<tickvars, lifevars>>

NextCalc ==
    \/ CalcPhase
    \/ CalcFirst
    \/ CalcNext
    \/ CalcCycle
    \/ CalcWaiting

SpecCalc == InitCalc /\ [][NextCalc]_vars

\* C15: get_phase is a function of cycle_synced and time_left alone: WARMUP
\* when the cycle is not synchronised, else FINISH below 10 s, CATCH from 10 s
\* to below 60 s, STEADY from 60 s on, whatever the other fields of the state.
C15_PhaseOfSyncedAndTimeLeft ==
    calc.kind = "phase" =>
        calc.out = IF ~calc.st.cycle_synced THEN PHASE_WARMUP
                   ELSE IF calc.tl < 10 THEN PHASE_FINISH
                   ELSE IF calc.tl < 60 THEN PHASE_CATCH
                   ELSE PHASE_STEADY

\* a synchronised cycle exactly 10 s before the announce is in CATCH, and the
\* state has a jump count and a cycle interval
C15_Witness ==
    /\ calc.kind = "phase"
    /\ calc.st.cycle_synced
    /\ calc.tl = 10
    /\ calc.st.jump_count = 2
    /\ calc.st.cycle_interval = 1800
    /\ calc.out = "catch"

\* C19: a positive cap returned by calculate is a multiple of the step the
\* quantiser chose for the call and is at least MIN_LIMIT.
C19_CapMultipleOfStep ==
    calc.kind = "limit" /\ calc.out.limit > 0 =>
        /\ calc.out.limit >= MIN_LIMIT
        /\ calc.out.limit %
              QuantStep(calc.phase, calc_current_speed(calc.ctl, calc.phase),
                        calc.target, get_recent_trend(calc.ctl)) = 0

\* C20: in FINISH, the positive caps of two successive ticks differ by a
\* factor of at most 2.
C20_FinishSlew ==
    /\ calc.kind = "limit"
    /\ calc.phase = PHASE_FINISH
    /\ calc.prev > 0
    /\ calc.out.limit > 0
    => /\ calc.out.limit <= 2 * calc.prev
       /\ calc.prev <= 2 * calc.out.limit

(***************************************************************************)
(* The life cycle: start(), the tick loop, stop(), and a new engine made   *)
(* over the same database.  The loop thread and the caller of stop() run   *)
(* side by side; stop() is taken in two steps, before and after its join.  *)
(* The bot's pause and resume are left to the tick-loop specification.     *)
(***************************************************************************)
\* passes of the tick loop in one behaviour of the life cycle
LifePasses == 2

\* the keyword arguments _save_states_to_db builds for one state
state_record(h, st) ==
    [torrent_hash |-> h, cycle_start |-> st.cycle_start,
     cycle_uploaded_start |-> st.cycle_uploaded_start,
     cycle_index |-> st.cycle_index,
     cycle_synced |-> IF st.cycle_synced THEN 1 ELSE 0,
     cycle_interval |-> st.cycle_interval, jump_count |-> st.jump_count,
     last_jump |-> st.last_jump, prev_time_left |-> st.prev_time_left,
     cached_time_left |-> st.cached_time_left, instance_id |-> st.instance_id,
     target_speed |-> st.target_speed, last_limit |-> st.last_limit,
     last_limit_reason |-> st.last_limit_reason,
     last_dl_limit |-> st.last_dl_limit,
     session_start_time |-> st.session_start_time,
     total_uploaded_start |-> st.total_uploaded_start,
     total_size |-> st.total_size]

\* db.save_torrent_limit_state(torrent_hash=h, name=..., ...): the method is
\* save_torrent_limit_state(self, state), so the call with keywords raises
\* TypeError before a row is written; the table keeps what it held
save_torrent_limit_state(tbl, rec) == tbl

\* _save_states_to_db: one call per state, its exception caught, then the
\* next state
RECURSIVE save_each(_, _, _)
save_each(tbl, sts, hs) ==
    IF hs = {} THEN tbl
    ELSE LET h == CHOOSE x \in hs : TRUE
         IN  save_each(IF sts[h].present
                       THEN save_torrent_limit_state(tbl, state_record(h, sts[h]))
                       ELSE tbl,
                       sts, hs \ {h})

save_states_to_db(tbl, sts) == save_each(tbl, sts, Hashes)

\* _restore_states_from_db: self.db.get_torrent_limit_states() is not a
\* method of Database (which has get_all_torrent_limit_states), the
\* AttributeError is caught and the function returns: _states stays empty
restore_states_from_db(tbl) == [h \in Hashes |-> NoState]

\* the limits at the clients after a call of set_upload_limit or
\* set_download_limit: a call that succeeds sets the limit of its hashes at
\* its instance
applied(cl, call) ==
    IF call.ok
    THEN [p \in Instances \X Hashes |->
             IF p[1] = call.inst /\ \E k \in DOMAIN call.hashes : call.hashes[k] = p[2]
             THEN [cl[p] EXCEPT ![call.kind] = call.sent]
             ELSE cl[p]]
    ELSE cl

\* _restore_limits_on_exit: the pairs <<inst_id, hash>> of the upload calls
\* (every state) and of the download calls (states with last_dl_limit > 0)
by_inst(sts) == {p \in Instances \X Hashes :
                    sts[p[2]].present /\ sts[p[2]].instance_id = p[1]}
by_inst_dl(sts) == {p \in by_inst(sts) : sts[p[2]].last_dl_limit > 0}

\* the limits at the clients after the calls of _restore_limits_on_exit, of
\* which those to the instances of reached succeed
restore_limits_on_exit(cl, sts, reached) ==
    [p \in Instances \X Hashes |->
        [up |-> IF p \in by_inst(sts) /\ p[1] \in reached THEN 0 ELSE cl[p].up,
         dl |-> IF p \in by_inst_dl(sts) /\ p[1] \in reached THEN 0 ELSE cl[p].dl]]

\* the caps in force at the clients: pairs <<inst_id, hash>>
capped_up(cl) == {p \in Instances \X Hashes : cl[p].up > 0}
capped_dl(cl) == {p \in Instances \X Hashes : cl[p].dl > 0}

\* a new engine over the database, not started
InitLife ==
    /\ EngineInit
    /\ WorldInit
    /\ running = FALSE
    /\ thread = [loop |-> "none", workers |-> 0]

\* start() of an engine made with a site helper: returns when _running;
\* else sets _running and starts the two workers and the loop thread.
\* Thread.start() raises RuntimeError when no thread can be made; start()
\* catches nothing before the startup notice, so the exception leaves it
\* with what was done so far.  outcome is the thread whose start raised.
Start ==
    /\ ~running
    /\ stopper # "joining"
    /\ thread.loop = "none"
    /\ running' = TRUE
    /\ stopper' = "idle"
    /\ \E outcome \in {"tid", "peer", "loop", "started"} :
          /\ thread' = [loop |-> IF outcome = "started" THEN "alive" ELSE "none",
                        workers |-> IF outcome = "tid" THEN 0
                                    ELSE IF outcome = "peer" THEN 1
                                    ELSE 2]
          /\ hist' = [hist EXCEPT !.start_failed = outcome # "started"]
    /\ UNCHANGED <<tickvars, store, client, calc>>

\* _run_loop enters a pass: "while self._running and not
\* self._stop_event.is_set()" held
LifeBeginPass ==
    /\ thread.loop = "alive"
    /\ running
    /\ passes < LifePasses
    /\ BeginPass
    /\ UNCHANGED <<lifevars, calc>>

\* the torrent loop of the pass; no step of _process_all reads _running
LifeProcessTorrent ==
    /\ ProcessTorrent
    /\ UNCHANGED <<lifevars, calc>>

\* a set-limit call of the pass, and what it does at the client
LifeApplyLimit ==
    /\ ApplyUploadLimit \/ ApplyDownloadLimit
    /\ client' = applied(client, rpc_log'[Len(rpc_log')])
    /\ hist' = [hist EXCEPT !.late = @ \/ stopper = "returned"]
    /\ UNCHANGED <<running, thread, stopper, store, calc>>

\* the end of the pass and the sleep
LifeEndPass ==
    /\ EndPass
    /\ UNCHANGED <<lifevars, calc>>

\* the loop thread and the workers find _running false and return
ThreadsExit ==
    /\ ~running
    /\ pc = "sleep"
    /\ thread.loop = "alive" \/ thread.workers > 0
    /\ thread' = [loop |-> IF thread.loop = "alive" THEN "exited" ELSE thread.loop,
                  workers |-> 0]
    /\ UNCHANGED <<tickvars, running, stopper, store, client, hist, calc>>

\* stop() up to its join: "self._running = False; self._stop_event.set()".
\* It is called while the loop sleeps or while the pass sends its limits.
StopBegin ==
    /\ running
    /\ stopper # "joining"
    /\ pc = "sleep" \/ todo = <<>>
    /\ running' = FALSE
    /\ stopper' = "joining"
    /\ UNCHANGED <<tickvars, thread, store, client, hist, calc>>

\* stop() after its join, which returns when the loop thread has ended or
\* after 5 s, the loop thread being inside a pass: _restore_limits_on_exit,
\* _save_states_to_db, then stop() returns
StopFinish ==
    /\ stopper = "joining"
    /\ thread.loop # "alive" \/ pc = "pass"
    /\ \E reached \in SUBSET Instances :
          client' = restore_limits_on_exit(client, states, reached)
    /\ store' = save_states_to_db(store, states)
    /\ hist' = [hist EXCEPT !.capped = [up |-> capped_up(client),
                                        dl |-> capped_dl(client)],
                            !.uncapped = [up |-> by_inst(states),
                                          dl |-> by_inst_dl(states)],
                            !.before = states]
    /\ stopper' = "returned"
    /\ UNCHANGED <<tickvars, running, thread, calc>>

\* the process is started again: a new engine is constructed over the same
\* database, __init__ ending with _restore_states_from_db
NewEngine ==
    /\ stopper = "returned"
    /\ thread.loop = "exited" /\ thread.workers = 0
    /\ ~hist.restarted
    /\ states' = restore_states_from_db(store)
    /\ paused' = FALSE
    /\ eng' = [stats |-> [total_cycles |-> 0, success_cycles |-> 0,
                          precision_cycles |-> 0],
               precision_tracker |-> PrecisionTrackerNew]
    /\ api_times' = <<>>
    /\ thread' = [loop |-> "none", workers |-> 0]
    /\ stopper' = "idle"
    /\ hist' = [hist EXCEPT !.restarted = TRUE, !.late = FALSE]
    /\ UNCHANGED <<now, pc, passes, todo, active_hashes, up_actions, dl_actions,
                   emit, rpc_log, running, store, client, calc>>

NextLife ==
    \/ Start
    \/ LifeBeginPass
    \/ LifeProcessTorrent
    \/ LifeApplyLimit
    \/ LifeEndPass
    \/ ThreadsExit
    \/ StopBegin
    \/ StopFinish
    \/ NewEngine

SpecLife == InitLife /\ [][NextLife]_vars

\* C12: when stop() returns, every upload cap and every download cap in
\* force at a client has had its uncapping call issued by stop().
C12_StopUncapsAll ==
    stopper = "returned" =>
        /\ hist.capped.up \subseteq hist.uncapped.up
        /\ hist.capped.dl \subseteq hist.uncapped.dl

\* C13: once stop() has returned, the tick loop makes no further set-limit
\* call.
C13_NoCallAfterStop == ~hist.late

\* C14: after a start() that failed, the engine does not report running
\* and no worker it started is left.
C14_NoHalfStart ==
    hist.start_failed /\ stopper = "idle" => ~running /\ thread.workers = 0

\* C17: after the save of stop(), the table holds the record of every state,
\* and restoring from the table and saving again leaves the table as it is.
C17_RoundTrip ==
    stopper = "returned" =>
        /\ \A h \in Hashes :
              hist.before[h].present =>
                  store[h] = [present |-> TRUE, rec |-> state_record(h, hist.before[h])]
        /\ save_states_to_db(store, restore_states_from_db(store)) = store

\* C18: a new engine made after a stop has, for every torrent that had a
\* state before the stop, a state with the same cycle_index and
\* cycle_uploaded_start, as long as no pass has changed it.
C18_RestartKeepsCycle ==
    hist.restarted /\ thread.loop = "none" =>
        \A h \in Hashes :
            hist.before[h].present =>
                /\ states[h].present
                /\ states[h].cycle_index = hist.before[h].cycle_index
                /\ states[h].cycle_uploaded_start = hist.before[h].cycle_uploaded_start

(***************************************************************************)
(* The budget of torrent-properties calls.  _process_all hands the time at *)
(* which the pass began (loop_start) to every _get_props of the pass, and  *)
(* _api_ok stamps a call with that time; the call itself is made when the  *)
(* pass reaches it.  calc.clock is the wall clock, now the loop_start of   *)
(* the running pass, rpc_log the wall-clock times of the calls made.  The  *)
(* torrents of a pass are drawn: a pass has as many as it has.             *)
(***************************************************************************)
\* torrent-properties calls made in one behaviour, and seconds of wall clock
MaxPropsCalls == 22
PropsSeconds == 2

\* the state of a torrent handed to _get_props: one whose properties were
\* never fetched, or were fetched in this very second; its cache holds 900 s
PropsStates(t) ==
    {[TorrentLimitState(1) EXCEPT !.instance_id = 1, !.session_start_time = StartTime,
                                  !.cached_time_left = 900, !.cache_ts = StartTime,
                                  !.last_props = lp] : lp \in {0, t}}

\* props['reannounce'] of the answer
PropsRaVals == {0, 1800}

InitProps ==
    /\ EngineInit
    /\ WorldInit
    /\ running = TRUE
    /\ thread = [loop |-> "alive", workers |-> 0]

\* _run_loop: "loop_start = time.time()", then _process_all(loop_start)
PropsBeginPass ==
    /\ pc = "sleep"
    /\ calc.kind \in {"none", "props"}
    /\ now' = IF calc.kind = "none" THEN now ELSE calc.clock
    /\ pc' = "pass"
    /\ calc' = IF calc.kind = "none"
               THEN [kind |-> "props", clock |-> now, asked |-> FALSE,
                     budget |-> TRUE, changed |-> FALSE, first |-> TRUE]
               ELSE [calc EXCEPT !.asked = FALSE, !.first = TRUE]
    /\ UNCHANGED <<paused, states, eng, api_times, passes, todo, active_hashes,
                   up_actions, dl_actions, emit, rpc_log, lifevars>>

\* one _get_props of the pass, for the next torrent
PropsCall ==
    /\ pc = "pass"
    /\ Len(rpc_log) < MaxPropsCalls
    /\ \E st \in PropsStates(now), ra \in PropsRaVals :
       \E r \in {get_props(st, api_times, ra, now)} :
          /\ api_times' = r.api_times
          /\ rpc_log' = IF r.st.last_props # st.last_props
                        THEN Append(rpc_log, [kind |-> "props", at |-> calc.clock])
                        ELSE rpc_log
          /\ calc' = [kind |-> "props", clock |-> calc.clock, asked |-> TRUE,
                      budget |-> api_ok(api_times, now).ok,
                      changed |-> r.st # st, first |-> FALSE]
    /\ UNCHANGED <<now, paused, states, eng, pc, passes, todo, active_hashes,
                   up_actions, dl_actions, emit, lifevars>>

\* a second of wall clock goes by: during the sleep, or in a pass before
\* its first torrent (get_torrents is slow to answer)
PropsElapse ==
    /\ calc.kind = "props"
    /\ pc = "sleep" \/ calc.first
    /\ calc.clock < StartTime + PropsSeconds
    /\ calc' = [calc EXCEPT !.clock = @ + 1, !.asked = FALSE]
    /\ UNCHANGED <<tickvars, lifevars>>

\* the pass ends and the loop sleeps (0.1 s at least)
PropsEndPass ==
    /\ pc = "pass"
    /\ pc' = "sleep"
    /\ calc' = [calc EXCEPT !.asked = FALSE]
    /\ UNCHANGED <<now, paused, states, eng, api_times, passes, todo, active_hashes,
                   up_actions, dl_actions, emit, rpc_log, lifevars>>

NextProps ==
    \/ PropsBeginPass
    \/ PropsCall
    \/ PropsElapse
    \/ PropsEndPass

SpecProps == InitProps /\ [][NextProps]_vars

\* the torrent-properties calls made in the second c of wall clock
PropsCallsAt(c) == {i \in DOMAIN rpc_log : rpc_log[i].at = c}

\* C21: no second of wall clock sees more than 20 torrent-properties calls,
\* and a _get_props that finds the budget used up returns the state as it
\* got it.
C21_PropsRateLimit ==
    /\ \A c \in StartTime .. StartTime + PropsSeconds :
          Cardinality(PropsCallsAt(c)) <= API_RATE_LIMIT
    /\ calc.kind = "props" /\ calc.asked /\ ~calc.budget => ~calc.changed

\* C23: a torrent is put in waiting_reannounce or force-reannounced only if
\* its site has reannounce optimisation enabled.
C23_OnlyOptedInSites ==
    \A h \in Hashes :
        states[h].present /\ (states[h].waiting_reannounce \/ states[h].last_reannounce > 0)
            => enable_reannounce_opt(SiteOf(h))

(***************************************************************************)
(* One torrent over many ticks.  Torrent 1 stays active on instance 1; the *)
(* client announces to the tracker every RaInterval seconds and after a    *)
(* forced reannounce, and reports the countdown to its next announce; the  *)
(* torrent uploads at one of the rates of RaRateVals between two ticks.    *)
(* A tick is a whole pass of _process_all for the torrent.  calc carries   *)
(* the client's side (uploaded counter, time of the next announce) and     *)
(* what the last tick read and did; rpc_log keeps every forced reannounce. *)
(***************************************************************************)
\* ticks in one behaviour
RaPasses == 7
\* seconds between two ticks, KiB/s uploaded between them, and the
\* tracker's announce interval at the client
RaSleepVals == {450, 900}
RaRateVals == {0, 51712}
RaInterval == 1800

\* the client's uploaded counter and the time of its next announce
RaUploaded == IF calc.kind # "none" THEN calc.uploaded ELSE 0
RaNextAnnounce == IF calc.kind # "none" THEN calc.ann ELSE StartTime + RaInterval

InitRa ==
    /\ EngineInit
    /\ WorldInit
    /\ running = TRUE
    /\ thread = [loop |-> "alive", workers |-> 0]

\* a pass that lists the torrent, and the sleep after it
RaTick ==
    /\ passes < RaPasses
    /\ calc.kind # "norule"
    /\ \E uploaded \in {RaUploaded} :
       \E ann \in {IF RaNextAnnounce <= now THEN RaNextAnnounce + RaInterval
                   ELSE RaNextAnnounce} :
       \E st0 \in {attach(IF states[1].present THEN states[1] ELSE TorrentLimitState(1),
                          1, 1, uploaded, now)} :
       \E r \in {process_torrent(st0, eng, api_times, 1, uploaded, ann - now, now, FALSE)} :
       \E reann \in {r.st.last_reannounce # st0.last_reannounce} :
       \E rate \in RaRateVals, dt \in RaSleepVals :
          /\ states' = [states EXCEPT ![1] =
                           IF up_changed(r.up_limit, r.st)
                           THEN [r.st EXCEPT !.last_limit = r.up_limit]
                           ELSE r.st]
          /\ eng' = r.eng
          /\ api_times' = r.api_times
          /\ rpc_log' = IF reann
                        THEN Append(rpc_log, [kind |-> "reannounce", h |-> 1, at |-> now,
                                              cycle |-> r.st.cycle_index])
                        ELSE rpc_log
          /\ calc' = [kind |-> "tick", uploaded |-> uploaded + rate * dt,
                      ann |-> IF reann THEN now + RaInterval ELSE ann,
                      at |-> now, seen |-> uploaded,
                      ra_prev |-> IF calc.kind = "tick" THEN calc.ra ELSE 0,
                      ra |-> ann - now, tl |-> r.tl, is_jump |-> r.is_jump,
                      opened |-> r.opened, pre |-> st0, reann |-> reann,
                      listed |-> TRUE]
          /\ now' = now + dt
    /\ passes' = passes + 1
    /\ UNCHANGED <<paused, pc, todo, active_hashes, up_actions, dl_actions, emit,
                   lifevars>>

\* a pass in which the client does not list the torrent as active (it
\* uploads nothing meanwhile), and the sleep after it
RaAbsent ==
    /\ passes < RaPasses
    /\ calc.kind = "tick"
    /\ states' = cleanup_states(states, {}, now)
    /\ \E dt \in RaSleepVals : now' = now + dt
    /\ calc' = [calc EXCEPT !.ra = 0, !.reann = FALSE, !.is_jump = FALSE,
                            !.opened = FALSE, !.listed = FALSE]
    /\ passes' = passes + 1
    /\ UNCHANGED <<paused, eng, api_times, pc, todo, active_hashes, up_actions,
                   dl_actions, emit, rpc_log, lifevars>>

\* a pass that lists the torrent when no enabled speed rule is left for it
\* (_get_rule_for_torrent returns None: the rules were disabled or deleted
\* and stay so), and the sleep after it
RaNoRule ==
    /\ passes < RaPasses
    /\ \E uploaded \in {RaUploaded}, ann \in {RaNextAnnounce} :
       \E st0 \in {attach(IF states[1].present THEN states[1] ELSE TorrentLimitState(1),
                          1, 1, uploaded, now)} :
          /\ states' = cleanup_states([states EXCEPT ![1] = st0], {}, now)
          /\ calc' = [kind |-> "norule", uploaded |-> uploaded, ann |-> ann,
                      at |-> now, seen |-> uploaded, ra_prev |-> 0, ra |-> 0,
                      tl |-> 0, is_jump |-> FALSE, opened |-> FALSE, pre |-> st0,
                      reann |-> FALSE, listed |-> TRUE]
    /\ \E dt \in RaSleepVals : now' = now + dt
    /\ passes' = passes + 1
    /\ UNCHANGED <<paused, eng, api_times, pc, todo, active_hashes, up_actions,
                   dl_actions, emit, rpc_log, lifevars>>

NextRa ==
    \/ RaTick
    \/ RaAbsent
    \/ RaNoRule

SpecRa == InitRa /\ [][NextRa]_vars

\* C22: any two forced reannounces of a torrent are at least
\* REANNOUNCE_MIN_INTERVAL seconds apart.
C22_ReannounceSpacing ==
    \A i, j \in DOMAIN rpc_log :
        i < j /\ rpc_log[i].h = rpc_log[j].h
            => rpc_log[j].at - rpc_log[i].at >= REANNOUNCE_MIN_INTERVAL

\* two forced reannounces of the torrent have been made
C22_Witness == Len(rpc_log) >= 2

\* the last tick found the torrent waiting, in a cycle that has lasted at
\* least REANNOUNCE_MIN_INTERVAL seconds and whose average upload speed is
\* below SPEED_LIMIT
RecoveryDue ==
    /\ calc.kind = "tick" /\ calc.listed
    /\ calc.pre.waiting_reannounce
    /\ ~calc.opened
    /\ this_time(calc.pre, calc.at) >= REANNOUNCE_MIN_INTERVAL
    /\ this_up(calc.pre, calc.seen) < SPEED_LIMIT * this_time(calc.pre, calc.at)

CountdownReset ==
    /\ calc.kind = "tick" /\ calc.listed
    /\ calc.ra_prev > 0
    /\ calc.ra > calc.ra_prev + 30

\* C28: every upward reset of the client's announce countdown by more than
\* 30 s between two ticks opens a new cycle on that tick, the second and
\* later resets included, without any site adapter.
C28_EveryResetOpensCycle == CountdownReset => calc.is_jump /\ calc.opened

\* C30: without a site adapter (none writes last_announce_time here) the
\* time left used by a tick is the cached countdown decayed by the time
\* since it was read, floored at 0, and 9999 when nothing was cached.
C30_TimeLeftFromCountdown ==
    calc.kind = "tick" /\ calc.listed
        => calc.tl = IF states[1].cache_ts <= 0 THEN 9999
                     ELSE Max(0, states[1].cached_time_left - (calc.at - states[1].cache_ts))

\* C29: on a jump new_cycle adds exactly 1 to jump_count and takes the
\* uploaded counter as the cycle's baseline; it stores the time since the
\* previous jump as cycle_interval and sets cycle_synced only when jump_count
\* is then at least 2 and that time is more than 60 s, and leaves both as
\* they were otherwise.  (Checked under SpecCalc.)
C29_JumpBookkeeping ==
    calc.kind = "cycle" /\ calc.is_jump =>
        /\ calc.out.jump_count = calc.st.jump_count + 1
        /\ calc.out.cycle_uploaded_start = calc.uploaded
        /\ IF calc.out.jump_count >= 2 /\ calc.st.last_jump > 0
                                       /\ calc.t - calc.st.last_jump > 60
           THEN /\ calc.out.cycle_interval = calc.t - calc.st.last_jump
                /\ calc.out.cycle_synced
           ELSE /\ calc.out.cycle_interval = calc.st.cycle_interval
                /\ calc.out.cycle_synced = calc.st.cycle_synced

\* a second jump more than 60 s after the first synchronises the cycle
C29_Witness ==
    /\ calc.kind = "cycle" /\ calc.is_jump
    /\ calc.st.jump_count = 1 /\ ~calc.st.cycle_synced
    /\ calc.out.jump_count = 2 /\ calc.out.cycle_synced /\ calc.out.cycle_interval = 1800

\* a second jump within 60 s of the first leaves the cycle unsynchronised
C29_WitnessClose ==
    /\ calc.kind = "cycle" /\ calc.is_jump
    /\ calc.st.jump_count = 1 /\ calc.t - calc.st.last_jump = 60
    /\ calc.out.jump_count = 2 /\ ~calc.out.cycle_synced /\ calc.out.cycle_interval = 0

\* C27: a pass that finds no enabled speed rule for a listed torrent issues
\* no cap and no other call for it, keeps its state, and records its limit
\* reason as "no-rule".
C27_NoRuleRecorded ==
    calc.kind = "norule" =>
        /\ states[1].present
        /\ states[1].last_limit = calc.pre.last_limit
        /\ states[1].last_limit_reason = "no-rule"

(***************************************************************************)
(* The helper threads.  The main loop processes torrent 1 pass after pass  *)
(* (attach, then _process_torrent, which also queues the torrent's hash    *)
(* for the helper threads); _tid_worker and _peer_worker take a hash from  *)
(* their queue, fetch the state object from the map and assign its fields  *)
(* one by one, each assignment a step of its own.  calc carries the fields *)
(* of the state that only the helper tasks use (more), the two queues, the *)
(* position of each worker, the holder of _states_lock, and a record of    *)
(* every assignment a worker has made.                                     *)
(***************************************************************************)
\* passes of the main loop in one behaviour
WorkPasses == 3
\* seconds between two passes
WorkSleepVals == {1, 400, 3600}
TID_SEARCH_INTERVAL == 60
PEER_LIST_CHECK_INTERVAL == 300
\* what the site answers: the torrent's id and publish time, the time of
\* the last announce the site has seen, and its countdown
SiteAnswer ==
    [tid |-> 7, publish_time |-> StartTime - 5000,
     last_announce |-> StartTime - 600, reannounce_in |-> 1200]

\* tid, promotion, tid_searched, tid_not_found, tid_search_time,
\* last_peer_list_check, peer_list_uploaded, reannounce_source of a new state
HelperFields ==
    [tid |-> 0, promotion |-> "unknown", tid_searched |-> FALSE,
     tid_not_found |-> FALSE, tid_search_time |-> 0, last_peer_list_check |-> 0,
     peer_list_uploaded |-> 0 - 1, reannounce_source |-> ""]

\* _maybe_search_tid: [more, put]
maybe_search_tid(more, t) ==
    IF \/ more.tid # 0
       \/ more.tid_searched
       \/ more.tid_not_found /\ t - more.tid_search_time < 3600
       \/ t - more.tid_search_time < TID_SEARCH_INTERVAL
    THEN [more |-> more, put |-> 0]
    ELSE [more |-> [more EXCEPT !.tid_search_time = t], put |-> 1]

\* _maybe_check_peer_list: [more, put]
maybe_check_peer_list(more, t) ==
    IF more.tid = 0 \/ t - more.last_peer_list_check < PEER_LIST_CHECK_INTERVAL
    THEN [more |-> more, put |-> 0]
    ELSE [more |-> [more EXCEPT !.last_peer_list_check = t], put |-> 1]

\* the assignment a worker at position pos makes, as [field, next], and
\* the state and helper fields after it
tid_assign(pos, found) ==
    IF pos = "got" THEN [field |-> "tid_searched",
                         next |-> IF found THEN "tid" ELSE "not_found"]
    ELSE IF pos = "tid" THEN [field |-> "tid", next |-> "promotion"]
    ELSE IF pos = "promotion" THEN [field |-> "promotion", next |-> "publish_time"]
    ELSE IF pos = "publish_time" THEN [field |-> "publish_time", next |-> "idle"]
    ELSE [field |-> "tid_not_found", next |-> "idle"]

peer_assign(pos) ==
    IF pos = "got" THEN [field |-> "last_announce_time", next |-> "uploaded"]
    ELSE IF pos = "uploaded" THEN [field |-> "peer_list_uploaded", next |-> "time_left"]
    ELSE IF pos = "time_left" THEN [field |-> "cached_time_left", next |-> "cache_ts"]
    ELSE IF pos = "cache_ts" THEN [field |-> "cache_ts", next |-> "source"]
    ELSE [field |-> "reannounce_source", next |-> "idle"]

assigned_state(st, field, t) ==
    IF field = "publish_time" THEN [st EXCEPT !.publish_time = SiteAnswer.publish_time]
    ELSE IF field = "last_announce_time"
    THEN [st EXCEPT !.last_announce_time = SiteAnswer.last_announce]
    ELSE IF field = "cached_time_left"
    THEN [st EXCEPT !.cached_time_left = SiteAnswer.reannounce_in]
    ELSE IF field = "cache_ts" THEN [st EXCEPT !.cache_ts = t]
    ELSE st

assigned_more(more, field) ==
    IF field = "tid_searched" THEN [more EXCEPT !.tid_searched = TRUE]
    ELSE IF field = "tid" THEN [more EXCEPT !.tid = SiteAnswer.tid]
    ELSE IF field = "promotion" THEN [more EXCEPT !.promotion = "free"]
    ELSE IF field = "tid_not_found" THEN [more EXCEPT !.tid_not_found = TRUE]
    ELSE IF field = "peer_list_uploaded" THEN [more EXCEPT !.peer_list_uploaded = 0]
    ELSE IF field = "reannounce_source" THEN [more EXCEPT !.reannounce_source = "site"]
    ELSE more

\* the client's countdown at time t: it announces every RaInterval seconds
WorkCountdown(t) == RaInterval - ((t - StartTime) % RaInterval)

InitWork ==
    /\ EngineInit
    /\ WorldInit
    /\ running = TRUE
    /\ thread = [loop |-> "alive", workers |-> 2]

\* start() has created the helper threads: both queues are empty, both
\* workers wait on their queue, nobody holds _states_lock
WorkStart ==
    /\ calc.kind = "none"
    /\ calc' = [kind |-> "work", more |-> HelperFields, tid_queue |-> 0,
                peer_queue |-> 0, tid_pc |-> "idle", peer_pc |-> "idle",
                lock |-> "free", writes |-> {},
                tid_put_at |-> 0, tid_gap |-> 0 - 1,
                peer_put_at |-> 0, peer_gap |-> 0 - 1,
                pass |-> [at |-> 0, pre |-> HelperFields, tid_put |-> 0]]
    /\ UNCHANGED <<tickvars, lifevars>>

\* _process_all up to the rule of the torrent
WorkBeginPass ==
    /\ calc.kind = "work"
    /\ pc = "sleep"
    /\ passes < WorkPasses
    /\ states' = [states EXCEPT ![1] =
                     attach(IF states[1].present THEN states[1] ELSE TorrentLimitState(1),
                            1, 1, 0, now)]
    /\ pc' = "torrent"
    /\ passes' = passes + 1
    /\ UNCHANGED <<now, paused, eng, api_times, todo, active_hashes, up_actions,
                   dl_actions, emit, rpc_log, lifevars, calc>>

\* _process_torrent, the end of the pass and the sleep after it
WorkProcess ==
    /\ calc.kind = "work"
    /\ pc = "torrent"
    /\ \E ts \in {maybe_search_tid(calc.more, now)} :
       \E pl \in {maybe_check_peer_list(ts.more, now)} :
       \E r \in {process_torrent(states[1], eng, api_times, 1, 0, WorkCountdown(now),
                                 now, FALSE)} :
          /\ states' = cleanup_states(
                           [states EXCEPT ![1] =
                               IF up_changed(r.up_limit, r.st)
                               THEN [r.st EXCEPT !.last_limit = r.up_limit]
                               ELSE r.st], {1}, now)
          /\ eng' = r.eng
          /\ api_times' = r.api_times
          /\ calc' = [calc EXCEPT
                 !.more = pl.more,
                 !.tid_queue = @ + ts.put,
                 !.peer_queue = @ + pl.put,
                 !.tid_put_at = IF ts.put = 1 THEN now ELSE @,
                 !.tid_gap = IF ts.put = 1 /\ calc.tid_put_at # 0
                             THEN now - calc.tid_put_at ELSE @,
                 !.peer_put_at = IF pl.put = 1 THEN now ELSE @,
                 !.peer_gap = IF pl.put = 1 /\ calc.peer_put_at # 0
                              THEN now - calc.peer_put_at ELSE @,
                 !.pass = [at |-> now, pre |-> calc.more, tid_put |-> ts.put]]
    /\ pc' = "sleep"
    /\ \E dt \in WorkSleepVals : now' = now + dt
    /\ UNCHANGED <<paused, passes, todo, active_hashes, up_actions, dl_actions,
                   emit, rpc_log, lifevars>>

\* _tid_worker: take a hash and fetch its state, or make the next assignment
TidWorkerStep ==
    /\ calc.kind = "work"
    /\ \/ /\ calc.tid_pc = "idle"
          /\ calc.tid_queue > 0
          /\ calc' = [calc EXCEPT !.tid_queue = @ - 1,
                                  !.tid_pc = IF states[1].present THEN "got" ELSE "idle"]
          /\ UNCHANGED states
       \/ /\ calc.tid_pc # "idle"
          /\ \E found \in BOOLEAN :
             \E a \in {tid_assign(calc.tid_pc, found)} :
                /\ states' = [states EXCEPT ![1] = assigned_state(@, a.field, now)]
                /\ calc' = [calc EXCEPT
                       !.more = assigned_more(@, a.field),
                       !.tid_pc = a.next,
                       !.writes = @ \cup {[by |-> "tid", field |-> a.field,
                                           locked |-> calc.lock = "tid",
                                           mid |-> pc = "torrent"]}]
    /\ UNCHANGED <<now, paused, eng, api_times, pc, passes, todo, active_hashes,
                   up_actions, dl_actions, emit, rpc_log, lifevars>>

\* _peer_worker: take a hash and fetch its state, or make the next assignment
PeerWorkerStep ==
    /\ calc.kind = "work"
    /\ \/ /\ calc.peer_pc = "idle"
          /\ calc.peer_queue > 0
          /\ calc' = [calc EXCEPT !.peer_queue = @ - 1,
                                  !.peer_pc = IF states[1].present /\ calc.more.tid # 0
                                              THEN "got" ELSE "idle"]
          /\ UNCHANGED states
       \/ /\ calc.peer_pc # "idle"
          /\ \E a \in {peer_assign(calc.peer_pc)} :
                /\ states' = [states EXCEPT ![1] = assigned_state(@, a.field, now)]
                /\ calc' = [calc EXCEPT
                       !.more = assigned_more(@, a.field),
                       !.peer_pc = a.next,
                       !.writes = @ \cup {[by |-> "peer", field |-> a.field,
                                           locked |-> calc.lock = "peer",
                                           mid |-> pc = "torrent"]}]
    /\ UNCHANGED <<now, paused, eng, api_times, pc, passes, todo, active_hashes,
                   up_actions, dl_actions, emit, rpc_log, lifevars>>

NextWork ==
    \/ WorkStart
    \/ WorkBeginPass
    \/ WorkProcess
    \/ TidWorkerStep
    \/ PeerWorkerStep

SpecWork == InitWork /\ [][NextWork]_vars

\* the fields the helper threads may assign
WorkerFields == {"tid", "promotion", "publish_time", "tid_not_found"}

\* C24: the helper threads assign only tid, promotion, publish_time and the
\* tid-not-found marker of a state, each assignment made while the thread
\* holds _states_lock, and none between the main loop's attach and the end
\* of its processing of the same state.
C24_WorkersWriteUnderLock ==
    calc.kind = "work" =>
        \A w \in calc.writes :
            /\ w.field \in WorkerFields
            /\ w.locked
            /\ ~w.mid

(***************************************************************************)
(* The closed loop.  Torrent 2, added 100 s before the engine started, is  *)
(* active on instance 1 with no site helper; it uploads at its true speed  *)
(* s_true, or at the cap the engine last sent when that is lower, and the  *)
(* client announces every RaInterval seconds.  The speed sample fed to the *)
(* engine is s_true throughout (the filters of the controller are modelled *)
(* on a constant series); the uploaded counter follows the cap.  The       *)
(* engine ticks as _run_loop sleeps.  calc carries the client's side:      *)
(* bytes uploaded, the time of the next announce and the announces made    *)
(* since the engine started; and the time of the last tick, whether a      *)
(* cycle was reported since the client's last announce, and whether the    *)
(* last reported cycle was a hit.                                          *)
(***************************************************************************)
\* announces of the client in one behaviour
MaxResets == 4
\* true upload speeds in KiB/s, between the target (8) and five times it
LoopSpeeds == {12, 24, 39}
\* seconds since the client's last announce when the engine starts
LoopOffsets == {0, 600}

\* _run_loop, "dynamic sleep", in whole seconds
sleep_time(min_tl) ==
    IF min_tl < 180 THEN 1
    ELSE IF min_tl < 600 THEN 2
    ELSE IF min_tl < 1800 THEN 4
    ELSE 5

\* bytes per second the torrent uploads under a cap (0: none)
LoopRate(s_true, cap) == IF cap > 0 THEN Min(s_true * 1024, cap) ELSE s_true * 1024

InitLoop ==
    /\ EngineInit
    /\ WorldInit
    /\ running = TRUE
    /\ thread = [loop |-> "alive", workers |-> 0]

\* the torrent as the first pass will find it
LoopStart ==
    /\ calc.kind = "none"
    /\ \E s \in LoopSpeeds, off \in LoopOffsets :
          calc' = [kind |-> "loop", s_true |-> s, bytes |-> 0,
                   ann |-> StartTime + RaInterval - off, resets |-> 0,
                   at |-> 0, reported |-> FALSE, hit |-> FALSE, tl |-> 0]
    /\ UNCHANGED <<tickvars, lifevars>>

\* one pass of _process_all, the cap it sends, and the sleep after it
LoopTick ==
    /\ calc.kind = "loop"
    /\ calc.resets < MaxResets \/ now < calc.ann - RaInterval + 120
    /\ \E fresh \in {calc.ann <= now} :
       \E ann \in {IF fresh THEN calc.ann + RaInterval ELSE calc.ann} :
       \E uploaded \in {calc.bytes \div 1024} :
       \E cap \in {client[<<1, 2>>].up} :
       \E st0 \in {attach(IF states[2].present THEN states[2] ELSE TorrentLimitState(2),
                          1, 2, uploaded, now)} :
       \E r \in {process_sampled(
                     record_speeds(st0, calc.s_true, DlSpeedOf(2), now),
                     eng, api_times, 2, uploaded, ann - now, now, FALSE)} :
       \E sent \in {IF up_changed(r.up_limit, r.st) THEN actual_limit(r.up_limit)
                    ELSE cap} :
       \E dt \in {sleep_time(r.tl)} :
          /\ states' = cleanup_states(
                           [states EXCEPT ![2] =
                               IF up_changed(r.up_limit, r.st)
                               THEN [r.st EXCEPT !.last_limit = r.up_limit]
                               ELSE r.st], {2}, now)
          /\ eng' = r.eng
          /\ api_times' = r.api_times
          /\ client' = [client EXCEPT ![<<1, 2>>].up = sent]
          /\ calc' = [calc EXCEPT
                 !.bytes = @ + LoopRate(calc.s_true, sent) * dt,
                 !.ann = ann,
                 !.resets = IF fresh THEN @ + 1 ELSE @,
                 !.at = now,
                 !.reported = r.is_jump \/ (calc.reported /\ ~fresh),
                 !.hit = IF r.is_jump
                         THEN r.eng.stats.success_cycles > eng.stats.success_cycles
                         ELSE calc.hit,
                 !.tl = r.tl]
          /\ now' = now + dt
    /\ UNCHANGED <<paused, pc, passes, todo, active_hashes, up_actions, dl_actions,
                   emit, rpc_log, running, thread, stopper, store, hist>>

NextLoop ==
    \/ LoopStart
    \/ LoopTick

SpecLoop == InitLoop /\ [][NextLoop]_vars

\* C25: for a torrent with a constant true speed between the target and
\* five times the target, the cycle that ends with the client's fourth or a
\* later announce (three complete cycles after the first) is reported within
\* a minute of that announce, with a ratio within 3% of 1 (a hit).
C25_ThirdCycleHit ==
    calc.kind = "loop" /\ calc.resets >= 4 /\ calc.at >= calc.ann - RaInterval + 60
        => calc.reported /\ calc.hit

\* C36: no two forced reannounces of a torrent, by either path, are made
\* in the same cycle of its state.
C36_OnePerCycle ==
    \A i, j \in DOMAIN rpc_log :
        i < j /\ rpc_log[i].h = rpc_log[j].h
            => rpc_log[i].cycle # rpc_log[j].cycle

\* a second forced reannounce has just been made, in a later cycle
C36_Witness ==
    /\ calc.kind = "tick" /\ calc.reann
    /\ Len(rpc_log) >= 2
    /\ rpc_log[Len(rpc_log)].cycle = states[1].cycle_index
    /\ rpc_log[Len(rpc_log) - 1].cycle < states[1].cycle_index

\* C38: a state whose cycle_synced is true keeps it true over every step
\* that keeps the state, so get_phase never answers WARMUP for it again.
C38_SyncedStays ==
    [][\A h \in Hashes :
          states[h].present /\ states[h].cycle_synced /\ states'[h].present
              => /\ states'[h].cycle_synced
                 /\ \A tl \in TlVals : get_phase(states'[h], tl) # PHASE_WARMUP]_vars

\* a tick found the state synchronised, opened a further cycle for it and
\* left it synchronised
C38_Witness ==
    /\ calc.kind = "tick"
    /\ calc.pre.cycle_synced
    /\ calc.opened
    /\ states[1].present /\ states[1].cycle_synced

\* C40: after every pass that processed a torrent, cycle_index of its
\* state is jump_count + 1: only the first cycle is opened without a jump.
C40_IndexCountsJumps ==
    calc.kind = "tick" /\ calc.listed
        => /\ states[1].present
           /\ states[1].cycle_index = states[1].jump_count + 1

\* a pass has processed the torrent in its third cycle, after two jumps
C40_Witness ==
    /\ calc.kind = "tick" /\ calc.listed
    /\ states[1].present
    /\ states[1].jump_count = 2
    /\ states[1].cycle_index = 3

\* the last pass found the torrent without tid, its last search answered
\* not-found, at least min_time seconds after that search was enqueued
NotFoundFor(min_time) ==
    /\ calc.kind = "work"
    /\ calc.pass.at # 0
    /\ calc.pass.pre.tid = 0
    /\ calc.pass.pre.tid_not_found
    /\ calc.pass.at - calc.pass.pre.tid_search_time >= min_time

\* C34: two successive enqueues of a torrent onto the tid-search queue are
\* at least TID_SEARCH_INTERVAL apart and two onto the peerlist queue at
\* least PEER_LIST_CHECK_INTERVAL apart; a pass less than 3600 s after a
\* search that answered not-found enqueues no tid search, and a pass 3600 s
\* or more after it enqueues the search again.
C34_Cooldowns ==
    calc.kind = "work"
        => /\ calc.tid_gap = 0 - 1 \/ calc.tid_gap >= TID_SEARCH_INTERVAL
           /\ calc.peer_gap = 0 - 1 \/ calc.peer_gap >= PEER_LIST_CHECK_INTERVAL
           /\ NotFoundFor(0) /\ ~NotFoundFor(3600) => calc.pass.tid_put = 0
           /\ NotFoundFor(3600) => calc.pass.tid_put = 1

\* the call of check_waiting_reannounce held in calc found the flag set, at
\* least min_time seconds of cycle behind it, and the cycle average under
\* SPEED_LIMIT
RecoveredAfter(min_time) ==
    /\ calc.st.waiting_reannounce
    /\ this_time(calc.st, calc.t) >= min_time
    /\ this_up(calc.st, calc.uploaded) < SPEED_LIMIT * this_time(calc.st, calc.t)

\* C33 as stated: check_waiting_reannounce forces a reannounce only when a
\* full announce interval (1800, 2700 or 3600 s by torrent age) has passed
\* in the current cycle.
C33_WaitsFullInterval ==
    calc.kind = "waiting" /\ calc.out.should
        => this_time(calc.st, calc.t) >= get_announce_interval(calc.st, calc.t)

\* C33: check_waiting_reannounce forces a reannounce and clears
\* waiting_reannounce exactly when the flag is set, at least
\* REANNOUNCE_MIN_INTERVAL seconds have passed in the current cycle and the
\* cycle's average upload speed is below SPEED_LIMIT; in every other case
\* it returns no reannounce and leaves the flag unchanged.
C33_RecoversAfterMinInterval ==
    calc.kind = "waiting"
        => /\ calc.out.should <=> RecoveredAfter(REANNOUNCE_MIN_INTERVAL)
           /\ calc.out.should => ~calc.out.waiting /\ calc.out.reason = "recovered"
           /\ ~calc.out.should
                 => /\ calc.out.waiting = calc.st.waiting_reannounce
                    /\ calc.out.reason = ""

\* a reannounce forced before a whole announce interval of the cycle passed
C33_Witness ==
    /\ calc.kind = "waiting"
    /\ calc.out.should
    /\ ~calc.out.waiting
    /\ this_time(calc.st, calc.t) < get_announce_interval(calc.st, calc.t)

(***************************************************************************)
(* The download cap.  Torrent 2 (half downloaded, downloading at 100       *)
(* KiB/s) is active on instance 1; between two passes it uploads at one of *)
(* the rates of DlRateVals and the client announces every RaInterval       *)
(* seconds.  A tick is a whole pass for the torrent, the                   *)
(* set_download_limit call included (the call succeeds, and                *)
(* client[<<1, 2>>].dl is the cap in force at the client, bytes/s, 0 for   *)
(* none).  calc carries the client's uploaded counter and next announce,   *)
(* and what the last tick found and did.                                   *)
(***************************************************************************)
\* ticks in one behaviour
DlPasses == 5
\* seconds between two ticks, and KiB/s uploaded between them
DlSleepVals == {10, 900}
DlRateVals == {0, 60000}

\* the cycle's running average upload speed is above SPEED_LIMIT
AvgAbove(st, total_uploaded, t) ==
    this_up(st, total_uploaded) > SPEED_LIMIT * this_time(st, t)

InitDl ==
    /\ EngineInit
    /\ WorldInit
    /\ running = TRUE
    /\ thread = [loop |-> "alive", workers |-> 0]

\* a pass that lists the torrent, its download-limit call, and the sleep
DlTick ==
    /\ passes < DlPasses
    /\ \E uploaded \in {RaUploaded} :
       \E ann \in {IF RaNextAnnounce <= now THEN RaNextAnnounce + RaInterval
                   ELSE RaNextAnnounce} :
       \E st0 \in {attach(IF states[2].present THEN states[2] ELSE TorrentLimitState(2),
                          1, 2, uploaded, now)} :
       \E r \in {process_torrent(st0, eng, api_times, 2, uploaded, ann - now, now, FALSE)} :
       \E rate \in DlRateVals, dt \in DlSleepVals :
          /\ states' = cleanup_states(
                           [states EXCEPT ![2] =
                               IF up_changed(r.up_limit, r.st)
                               THEN [r.st EXCEPT !.last_limit = r.up_limit]
                               ELSE r.st], {2}, now)
          /\ eng' = r.eng
          /\ api_times' = r.api_times
          /\ client' = IF r.dl_changed
                       THEN [client EXCEPT ![<<1, 2>>].dl =
                                actual_limit(dl_limit_apply(r.dl_kib))]
                       ELSE client
          /\ calc' = [kind |-> "dl", uploaded |-> uploaded + rate * dt, ann |-> ann,
                      at |-> now, seen |-> uploaded, pre |-> st0,
                      cap_before |-> client[<<1, 2>>].dl,
                      dl_kib |-> r.dl_kib, dl_changed |-> r.dl_changed,
                      opened |-> r.opened]
          /\ now' = now + dt
    /\ passes' = passes + 1
    /\ UNCHANGED <<paused, pc, todo, active_hashes, up_actions, dl_actions, emit,
                   rpc_log, running, thread, stopper, store, hist>>

NextDl == DlTick

SpecDl == InitDl /\ [][NextDl]_vars

\* the last tick found a download cap recorded for the cycle it stayed in
CapActive ==
    /\ calc.kind = "dl"
    /\ calc.pre.last_dl_limit > 0
    /\ ~calc.opened

\* C31: a pass that finds a download cap active in the current cycle
\* releases it (sends download limit -1) only when the cycle's running
\* average upload speed is at or below SPEED_LIMIT.
C31_ReleaseOnlyWhenRecovered ==
    CapActive /\ calc.dl_changed /\ calc.dl_kib = 0 - 1
        => ~AvgAbove(calc.pre, calc.seen, calc.at)

\* C32: with a download cap active, a positive cap is sent only when it is
\* below 95% of the current one; while the average is above the limit and
\* the value recomputed with DL_LIMIT_ADJUST_BUFFER is at or above 95% of
\* the current cap, nothing is sent and the current cap stays in force.
C32_TightenOrKeep ==
    /\ CapActive /\ calc.dl_changed /\ calc.dl_kib > 0
          => 100 * calc.dl_kib < 95 * calc.pre.last_dl_limit
    /\ (/\ CapActive
        /\ AvgAbove(calc.pre, calc.seen, calc.at)
        /\ 100 * DlLimitFor(TotalSizeOf(2) - DownloadedOf(2),
                            this_up(calc.pre, calc.seen),
                            this_time(calc.pre, calc.at), DL_LIMIT_ADJUST_BUFFER)
               >= 95 * calc.pre.last_dl_limit)
          => /\ ~calc.dl_changed
             /\ states[2].last_dl_limit = calc.pre.last_dl_limit
             /\ client[<<1, 2>>].dl = calc.cap_before

\* C37: after every pass, a torrent whose recorded download cap is -1 has
\* no download cap in force at the client.
C37_NoCapLeftBehind ==
    calc.kind = "dl" /\ states[2].present /\ states[2].last_dl_limit = 0 - 1
        => client[<<1, 2>>].dl = 0

(***************************************************************************)
(* Eviction.  Torrent 2 is on instance 1; on each pass the client lists it *)
(* as active or does not.  A tick is a whole pass, _cleanup_states         *)
(* included, and the sleep after it.  Once in a behaviour the process is   *)
(* stopped and started again: stop() saves the states, the new engine      *)
(* restores them.  calc holds the time of the pass, whether it listed the  *)
(* torrent, the time of the last pass that did (0 when none has), and      *)
(* whether the pass began with a state for the torrent.                    *)
(***************************************************************************)
\* ticks in one behaviour
EvictPasses == 5
\* seconds between two ticks
EvictSleepVals == {3600, 3700}

InitEvict ==
    /\ EngineInit
    /\ WorldInit
    /\ running = TRUE
    /\ thread = [loop |-> "alive", workers |-> 0]

\* the time of the last pass that listed the torrent
LastListed == IF calc.kind = "evict" THEN calc.last_listed ELSE 0

\* a pass that lists the torrent or not, and the sleep after it
EvictTick ==
    /\ passes < EvictPasses
    /\ \E listed \in BOOLEAN :
       \E ann \in {IF RaNextAnnounce <= now
                   THEN now + RaInterval - ((now - RaNextAnnounce) % RaInterval)
                   ELSE RaNextAnnounce} :
       \E st0 \in {attach(IF states[2].present THEN states[2] ELSE TorrentLimitState(2),
                          1, 2, 0, now)} :
       \E r \in {process_torrent(st0, eng, api_times, 2, 0, ann - now, now, FALSE)} :
          /\ states' = IF listed
                       THEN cleanup_states(
                               [states EXCEPT ![2] =
                                   IF up_changed(r.up_limit, r.st)
                                   THEN [r.st EXCEPT !.last_limit = r.up_limit]
                                   ELSE r.st], {2}, now)
                       ELSE cleanup_states(states, {}, now)
          /\ eng' = IF listed THEN r.eng ELSE eng
          /\ api_times' = IF listed THEN r.api_times ELSE api_times
          /\ calc' = [kind |-> "evict", uploaded |-> 0, ann |-> ann, at |-> now,
                      listed |-> listed,
                      last_listed |-> IF listed THEN now ELSE LastListed,
                      had |-> states[2].present,
                      restarted |-> calc.kind = "evict" /\ calc.restarted]
    /\ \E dt \in EvictSleepVals : now' = now + dt
    /\ passes' = passes + 1
    /\ UNCHANGED <<paused, pc, todo, active_hashes, up_actions, dl_actions, emit,
                   rpc_log, lifevars>>

\* stop() (_save_states_to_db) and a new engine over the same database
\* (__init__ ending with _restore_states_from_db), started at once
EvictRestart ==
    /\ calc.kind = "evict"
    /\ ~calc.restarted
    /\ store' = save_states_to_db(store, states)
    /\ states' = restore_states_from_db(store')
    /\ eng' = [stats |-> [total_cycles |-> 0, success_cycles |-> 0,
                          precision_cycles |-> 0],
               precision_tracker |-> PrecisionTrackerNew]
    /\ api_times' = <<>>
    /\ calc' = [calc EXCEPT !.restarted = TRUE]
    /\ UNCHANGED <<now, paused, pc, passes, todo, active_hashes, up_actions,
                   dl_actions, emit, rpc_log, running, thread, stopper, client, hist>>

NextEvict ==
    \/ EvictTick
    \/ EvictRestart

SpecEvict == InitEvict /\ [][NextEvict]_vars

\* the last pass did not list the torrent, and the last pass that did is
\* more than EVICT_AFTER seconds back
UnlistedTooLong ==
    /\ calc.kind = "evict"
    /\ ~calc.listed
    /\ calc.last_listed # 0
    /\ calc.at - calc.last_listed > EVICT_AFTER

\* C35: at the end of a pass that finds a torrent unlisted for more than
\* 2 h, the state map holds no state for it, whether the state came from a
\* pass of this engine or from the store.
C35_UnlistedEvicted ==
    UnlistedTooLong => ~states[2].present

\* a pass began with the state of a torrent unlisted for more than 2 h and
\* removed it
C35_Witness ==
    /\ UnlistedTooLong
    /\ calc.had
    /\ ~states[2].present

(***************************************************************************)
(* start() and stop() with the loop threads they leave behind.  The engine *)
(* has no site helper, so start() makes one thread, the loop.  Each loop   *)
(* thread is at the test of its while statement ("check"), inside          *)
(* _process_all ("pass") or has returned ("done"); a pass handles torrent  *)
(* 1 on instance 1 and is followed by the sleep of 5 s.  calc holds        *)
(* _stop_event, the threads made so far (made is the index of              *)
(* self._thread), and for each thread the value of made when it last       *)
(* passed the test.  start() and stop() are called one after the other by  *)
(* one caller; the join of stop() returns when self._thread has ended, or  *)
(* after its 5 s while that thread is inside a pass.                       *)
(***************************************************************************)
\* loop threads, calls of start() and passes in one behaviour
MaxStarts == 2
MaxStartCalls == 3
StartPasses == 3

LoopThreads == 1 .. MaxStarts

\* before the first call of start(): no thread, _stop_event clear
NoThreads ==
    [kind |-> "life", stop_event |-> FALSE, made |-> 0, calls |-> 0,
     loops |-> [i \in LoopThreads |-> [pos |-> "unborn", epoch |-> 0]]]

Threads == IF calc.kind = "life" THEN calc ELSE NoThreads

InitStart ==
    /\ EngineInit
    /\ WorldInit
    /\ running = FALSE
    /\ thread = [loop |-> "none", workers |-> 0]

\* start(): returns at once when _running; else sets _running, clears
\* _stop_event and starts a new loop thread, which becomes self._thread
StartCall ==
    /\ stopper # "joining"
    /\ Threads.calls < MaxStartCalls
    /\ running \/ Threads.made < MaxStarts
    /\ IF running
       THEN /\ calc' = [Threads EXCEPT !.calls = @ + 1]
            /\ UNCHANGED <<running, thread>>
       ELSE /\ running' = TRUE
            /\ calc' = [Threads EXCEPT
                           !.calls = @ + 1,
                           !.stop_event = FALSE,
                           !.made = @ + 1,
                           !.loops[Threads.made + 1] = [pos |-> "check", epoch |-> 0]]
            /\ thread' = [loop |-> "alive", workers |-> 0]
    /\ UNCHANGED <<tickvars, stopper, store, client, hist>>

\* _run_loop: "while self._running and not self._stop_event.is_set()"
StartLoopTest ==
    /\ calc.kind = "life"
    /\ \E i \in LoopThreads :
          /\ calc.loops[i].pos = "check"
          /\ IF running /\ ~calc.stop_event
             THEN /\ calc' = [calc EXCEPT !.loops[i] = [pos |-> "pass",
                                                        epoch |-> calc.made]]
                  /\ UNCHANGED thread
             ELSE /\ calc' = [calc EXCEPT !.loops[i].pos = "done"]
                  /\ thread' = IF i = calc.made
                               THEN [thread EXCEPT !.loop = "exited"]
                               ELSE thread
    /\ UNCHANGED <<tickvars, running, stopper, store, client, hist>>

\* _run_loop: the rest of _process_all, and the sleep
StartLoopPass ==
    /\ calc.kind = "life"
    /\ passes < StartPasses
    /\ \E i \in LoopThreads :
          /\ calc.loops[i].pos = "pass"
          /\ calc' = [calc EXCEPT !.loops[i].pos = "check"]
    /\ \E st0 \in {attach(IF states[1].present THEN states[1] ELSE TorrentLimitState(1),
                          1, 1, 0, now)} :
       \E r \in {process_torrent(st0, eng, api_times, 1, 0, WorkCountdown(now), now,
                                 FALSE)} :
          /\ states' = cleanup_states(
                           [states EXCEPT ![1] =
                               IF up_changed(r.up_limit, r.st)
                               THEN [r.st EXCEPT !.last_limit = r.up_limit]
                               ELSE r.st], {1}, now)
          /\ eng' = r.eng
          /\ api_times' = r.api_times
    /\ now' = now + 5
    /\ passes' = passes + 1
    /\ UNCHANGED <<paused, pc, todo, active_hashes, up_actions, dl_actions, emit,
                   rpc_log, lifevars>>

\* stop() up to its join: "self._running = False; self._stop_event.set()"
StartStopBegin ==
    /\ calc.kind = "life"
    /\ running
    /\ stopper # "joining"
    /\ running' = FALSE
    /\ calc' = [calc EXCEPT !.stop_event = TRUE]
    /\ stopper' = "joining"
    /\ UNCHANGED <<tickvars, thread, store, client, hist>>

\* stop() after its join: _restore_limits_on_exit, _save_states_to_db
StartStopFinish ==
    /\ calc.kind = "life"
    /\ stopper = "joining"
    /\ calc.loops[calc.made].pos \in {"done", "pass"}
    /\ \E reached \in SUBSET Instances :
          client' = restore_limits_on_exit(client, states, reached)
    /\ store' = save_states_to_db(store, states)
    /\ stopper' = "returned"
    /\ UNCHANGED <<tickvars, running, thread, hist, calc>>

NextStart ==
    \/ StartCall
    \/ StartLoopTest
    \/ StartLoopPass
    \/ StartStopBegin
    \/ StartStopFinish

SpecStart == InitStart /\ [][NextStart]_vars

\* the loop threads that are inside a pass they began after the last
\* thread was made
Looping ==
    {i \in LoopThreads : /\ Threads.loops[i].pos = "pass"
                         /\ Threads.loops[i].epoch = Threads.made}

\* C39: under any interleaving of start() and stop(), at most one loop
\* thread of the engine runs passes: no two threads are inside passes
\* that both began after the last call of start() that made a thread.
C39_OneLoop == Cardinality(Looping) <= 1
=============================================================================
